---- MODULE Spec2Model ----
(***************************************************************************)
(* A model of BlueFlagBot's decision pipeline: the scan cycle of           *)
(* src/src/core/bot.py, the YouTube client's quota gate and classifier     *)
(* (src/src/api/youtube.py), the SQLite store (src/src/core/database.py),  *)
(* the scorer and tag detector (src/src/core/scoring.py) and the forum     *)
(* client's publish and reconciliation paths (src/src/api/lemmy.py).       *)
(*                                                                         *)
(* Time is counted in units of 12 hours: datetime.now() is `now`, a        *)
(* calendar day is two units, 24 h = 2, 48 h = 4, 168 h = 14, 30 d = 60.   *)
(* The configured scan interval is one unit (interval_minutes = 720).      *)
(* Local time and SQLite's UTC CURRENT_TIMESTAMP are taken to coincide.    *)
(***************************************************************************)
EXTENDS Integers, Sequences, FiniteSets, TLC

VARIABLES
    now,                 \* datetime.now(), in 12 h units
    pc,                  \* position of run_once: idle, fetch, channels, posting, finally
    posted_videos,       \* table posted_videos
    lemmy_posts,         \* table lemmy_posts
    duplicate_tracking,  \* table duplicate_tracking
    old_video_cache,     \* table old_video_cache
    bot_stats,           \* table bot_stats, one row per day
    error_log,           \* table error_log
    quota_used_this_run, \* YouTubeAPI.quota_used_this_run
    posts_made,          \* run_once local
    slept_after,         \* per publish of this cycle: the seconds slept after it
    errors,              \* run_once local
    videos_processed,    \* run_once local
    candidate_videos,    \* run_once local: the sorted candidates
    all_videos,          \* fetch_candidate_videos local
    idx,                 \* loop position (channel index, then candidate index)
    test_mode,           \* config general.test_mode
    db_available,        \* the state store answers; when not, every operation raises
    community,           \* the forum community's posts (outside the process)
    listed,              \* the videos the source's upload playlists list
    live,                \* per video: the liveStreamingDetails the source reports
    cycles,              \* number of cycles started
    api_calls,           \* video-source API calls issued in this cycle
    reported,            \* per day: sum of the costs given to track_quota_usage
    stage,               \* per video: where this cycle's pipeline left it
    faults,              \* failed calls so far (API, login, sync, publish)
    failure,             \* the call that failed in this cycle, "none" if none did
    waited,              \* videos a cycle skipped as "not live before next scan"
    quota_probe,         \* what the last check_quota_limit call found and answered
    dedup_probe,         \* per video: the last check_for_duplicates answer, and
                         \* when the last two False answers were given
    call_probe,          \* the last direct call of a pure function and its result
    loop,                \* run_continuous: self.running, its locals, its sleeps
    request              \* LemmyAPI._make_request: the call under way, its attempts

vars == <<now, pc, posted_videos, lemmy_posts, duplicate_tracking, old_video_cache,
          bot_stats, error_log, quota_used_this_run, posts_made, slept_after, errors,
          videos_processed, candidate_videos, all_videos, idx, test_mode,
          db_available, community, listed, live, cycles, faults, failure, api_calls,
          reported, stage, waited, quota_probe, dedup_probe, call_probe, loop,
          request>>

----------------------------------------------------------------------------
(* Bounds of the exploration *)

MaxTime == 3
MaxCycles == 2
MaxFaults == 1
MaxQuota == 12
MaxDedupTime == 5
MaxPages == 3          \* pages of a subscription listing
MaxTitleLen == 3       \* words of a title given to generate_title_hash

----------------------------------------------------------------------------
(* Configuration and hard-coded horizons, in 12 h units where they are times *)

scan_interval == 1
video_max_age_hours == 2
duplicate_check_hours == 4
live_buffer_hours == 14
cache_days == 60
cleanup_days == 60
daily_quota_limit == 18
run_quota_limit == 6
max_posts_per_run == 2
max_posts_per_day == 3
max_posts_per_hour == 3
time_between_posts == 60         \* scan.time_between_posts_seconds, in seconds
min_quality_threshold == 65
livestream_quality_threshold == 60
live_content_bonus == 25
min_video_length_seconds == 60

\* where the clock runs in minutes or seconds: scan.interval_minutes, and
\* video_max_age_hours in minutes
interval_minutes == 30
max_age_minutes == 1440

\* "no such time": no scheduled start, no call yet
NoTime == 0 - 1000

\* "no such row"
NoRow == [absent |-> TRUE]

Today(t) == t \div 2

----------------------------------------------------------------------------
(* Texts.  A title or description is the sequence of its words; Python's    *)
(* `kw in text` is taken word-wise, which is what it yields for the titles  *)
(* and keywords used here (no keyword is a proper part of a word).  A       *)
(* duration is the sequence of the characters of the ISO 8601 string.       *)

\* str.lower() of a word; the words written with capitals are these
LowerWord(w) ==
    CASE w = "SHORTS" -> "shorts"
      [] w = "Podcast" -> "podcast"
      [] w = "Race" -> "race"
      [] w = "LIVE" -> "live"
      [] w = "LMP2" -> "lmp2"
      [] w = "WRC" -> "wrc"
      [] w = "Rally" -> "rally"
      [] w = "Finland" -> "finland"
      [] w = "Finland," -> "finland,"
      [] w = "GP" -> "gp"
      [] w = "Highlights" -> "highlights"
      [] w = "Highlights:" -> "highlights:"
      [] OTHER -> w

\* str.lower() of a text
lower(text) == [i \in 1..Len(text) |-> LowerWord(text[i])]

Contains(text, kw) == \E i \in 1..Len(text) : text[i] = kw

ContainsPair(text, a, b) == \E i \in 1..(Len(text) - 1) : text[i] = a /\ text[i + 1] = b

Digits == {"0", "1", "2", "3", "4", "5", "6", "7", "8", "9"}

DigitVal(c) ==
    CASE c = "0" -> 0 [] c = "1" -> 1 [] c = "2" -> 2 [] c = "3" -> 3 [] c = "4" -> 4
      [] c = "5" -> 5 [] c = "6" -> 6 [] c = "7" -> 7 [] c = "8" -> 8 [] c = "9" -> 9

RECURSIVE DigitsEnd(_, _)
DigitsEnd(d, p) ==
    IF p <= Len(d) /\ d[p] \in Digits THEN DigitsEnd(d, p + 1) ELSE p

RECURSIVE IntOf(_, _, _)
IntOf(d, p, q) ==
    IF p >= q THEN 0 ELSE IntOf(d, p, q - 1) * 10 + DigitVal(d[q - 1])

\* One optional group (?:(\d+)X)? of the duration pattern, tried at position p.
DurationGroup(d, p, unit) ==
    LET q == DigitsEnd(d, p)
    IN  IF q > p /\ q <= Len(d) /\ d[q] = unit
        THEN [val |-> IntOf(d, p, q), next |-> q + 1]
        ELSE [val |-> 0, next |-> p]

\* re.match(r'PT(?:(\d+)H)?(?:(\d+)M)?(?:(\d+)S)?', duration) and the seconds it yields.
MatchDuration(d) ==
    IF Len(d) >= 2 /\ d[1] = "P" /\ d[2] = "T"
    THEN LET h == DurationGroup(d, 3, "H")
             m == DurationGroup(d, h.next, "M")
             s == DurationGroup(d, m.next, "S")
         IN  [matched |-> TRUE, total_seconds |-> h.val * 3600 + m.val * 60 + s.val]
    ELSE [matched |-> FALSE, total_seconds |-> 0]

P0D == <<"P", "0", "D">>

\* YouTubeAPI.is_youtube_short(duration)
api_is_youtube_short(duration) ==
    IF duration = P0D THEN FALSE
    ELSE LET m == MatchDuration(duration)
         IN  IF ~m.matched THEN TRUE
             ELSE m.total_seconds < min_video_length_seconds

short_indicators == {"#shorts", "#short", "#youtubeshorts"}

\* ContentScorer.is_youtube_short(video_data)
scorer_is_youtube_short(video_data) ==
    IF \E ind \in short_indicators : Contains(video_data.title, ind) THEN TRUE
    ELSE IF video_data.duration # <<>>
         THEN LET m == MatchDuration(video_data.duration)
              IN  IF ~m.matched THEN TRUE
                  ELSE m.total_seconds < min_video_length_seconds
         ELSE FALSE

----------------------------------------------------------------------------------------------------------------------------------------
(* Title hash (Database.generate_title_hash).  A title is the sequence of   *)
(* its whitespace-separated words.  md5 is taken to be one-to-one on the    *)
(* strings hashed, so the hash is the string hashed: the sorted words.      *)

common_words == {"highlights", "race", "qualifying", "practice", "session", "live",
                 "full", "rally", "stage", "wrc", "special"}

\* re.sub(r'[^\w\s]', '', word): the words written with punctuation are these;
\* a word of punctuation only leaves nothing
StripPunctuation(w) ==
    CASE w = "highlights:" -> "highlights"
      [] w = "finland," -> "finland"
      [] w = "-" -> ""
      [] OTHER -> w

\* the words of the titles in Python's string order, which sorted() uses
WordOrder == <<"3", "6", "analysis", "f2", "finland", "gp", "hour", "official",
               "replay", "round", "spa", "sprint">>

WordRank(w) == CHOOSE i \in 1..Len(WordOrder) : WordOrder[i] = w

RECURSIVE InsertWord(_, _)
InsertWord(sorted, w) ==
    IF sorted = <<>> THEN <<w>>
    ELSE IF WordRank(Head(sorted)) <= WordRank(w)
         THEN <<Head(sorted)>> \o InsertWord(Tail(sorted), w)
         ELSE <<w>> \o sorted

\* sorted(words)
RECURSIVE SortWords(_)
SortWords(words) ==
    IF words = <<>> THEN <<>>
    ELSE InsertWord(SortWords(Tail(words)), Head(words))

\* database.py:399-409: lower-case, strip punctuation, split, drop common words
TitleWords(title) ==
    SelectSeq([i \in 1..Len(title) |-> StripPunctuation(LowerWord(title[i]))],
              LAMBDA w : w # "" /\ w \notin common_words)

\* a hash of the words in the order the title has them
generate_title_hash_unsorted(title) == TitleWords(title)

\* Database.generate_title_hash(title)
generate_title_hash(title) == SortWords(TitleWords(title))

----------------
(* Keyword configuration (keywords/en.json, as in tests/test_scoring.py)    *)

auto_reject == <<"shorts", "podcast">>
quality_boosters == <<"official", "live">>
race_content == <<"race", "qualifying">>
analysis_content == <<"analysis", "review">>
\* warning_signs is an operator-chosen list (scoring.py:89 reads whatever the
\* configuration holds); the test configuration has the first two words, two
\* more are listed here so that the penalties can take the sum below zero.
warning_signs == <<"reaction", "rumor", "drama", "clickbait">>

\* points given once for the whole list, however many of its keywords match
CategoryPoints(kws, title, description, in_title, in_desc) ==
    IF \E i \in 1..Len(kws) : Contains(title, LowerWord(kws[i])) THEN in_title
    ELSE IF \E i \in 1..Len(kws) : Contains(description, LowerWord(kws[i])) THEN in_desc
    ELSE 0

\* Sum over a keyword list: in_title when the keyword is in the title,
\* else in_desc when it is in the description.
RECURSIVE KeywordPoints(_, _, _, _, _)
KeywordPoints(kws, title, description, in_title, in_desc) ==
    IF kws = <<>> THEN 0
    ELSE (IF Contains(title, LowerWord(Head(kws))) THEN in_title
          ELSE IF Contains(description, LowerWord(Head(kws))) THEN in_desc
          ELSE 0)
         + KeywordPoints(Tail(kws), title, description, in_title, in_desc)

Min(a, b) == IF a < b THEN a ELSE b
Max(a, b) == IF a > b THEN a ELSE b

\* scoring.py:52-123: the base score and what the keywords, the view count,
\* the age, the live state and the rally stage words add to it
ScoreSum(title, description, video_data, t) ==
    50
    + KeywordPoints(quality_boosters, title, description, 10, 5)
    + KeywordPoints(race_content, title, description, 15, 8)
    + KeywordPoints(analysis_content, title, description, 8, 4)
    - KeywordPoints(warning_signs, title, description, 15, 8)
    + (IF video_data.view_count > 5000 THEN 5
       ELSE IF video_data.view_count > 2500 THEN 3
       ELSE IF video_data.view_count > 1000 THEN 1 ELSE 0)
    - (IF (t - video_data.published_at) > 2 /\ video_data.view_count < 500
       THEN 10 ELSE 0)
    + (IF video_data.is_livestream THEN live_content_bonus ELSE 0)
    + (IF (Contains(title, "stage")
             /\ (Contains(title, "rally") \/ Contains(title, "wrc")))
          \/ ContainsPair(title, "special", "stage")
       THEN 10 ELSE 0)

\* scoring.py:56-59: an auto-reject keyword is in the title
AutoRejected(title) ==
    \E i \in 1..Len(auto_reject) : Contains(title, LowerWord(auto_reject[i]))

\* a scorer that reads the title as it is written and does not bound the sum
calculate_content_quality_score_as_written(video_data, t) ==
    IF AutoRejected(video_data.title) THEN 0
    ELSE ScoreSum(video_data.title, video_data.description, video_data, t)

\* ContentScorer.calculate_content_quality_score(video_data) at time t
calculate_content_quality_score(video_data, t) ==
    IF AutoRejected(lower(video_data.title)) THEN 0
    ELSE Max(0, Min(100, ScoreSum(lower(video_data.title),
                                  lower(video_data.description), video_data, t)))

\* ContentScorer.is_acceptable_content(video_data): the score it stores and its verdict
is_acceptable_content(video_data, t) ==
    LET quality_score == calculate_content_quality_score(video_data, t)
        threshold == IF video_data.is_livestream THEN livestream_quality_threshold
                     ELSE min_quality_threshold
    IN  [quality_score |-> quality_score,
         below |-> quality_score < threshold,
         short |-> quality_score >= threshold /\ scorer_is_youtube_short(video_data),
         ok |-> quality_score >= threshold /\ ~scorer_is_youtube_short(video_data)]

----------------------------------------------------------------------------
(* Channel configuration (channels.json) and the series tag detector        *)

channels ==
    << [channelID |-> "ch1", name |-> "Formula", primary_tag |-> "F1",
        secondary_tags |-> <<"F2">>],
       [channelID |-> "ch2", name |-> "Endurance", primary_tag |-> "WEC",
        secondary_tags |-> <<"LMP2", "SPA24H">>] >>

class_tags == {"LMP2", "LMP3", "GT3", "GT4", "HYPERCAR", "LMGT3", "GTLM", "GTD"}

\* str.lower() of the configured tags
Lower(tag) ==
    CASE tag = "F2" -> "f2" [] tag = "LMP2" -> "lmp2" [] tag = "SPA24H" -> "spa24h"
      [] OTHER -> tag

\* RacingSeriesDetector.is_more_specific_tag
is_more_specific_tag(secondary_tag, primary_tag, title, description) ==
    IF secondary_tag \in class_tags THEN Contains(title, Lower(secondary_tag))
    ELSE IF secondary_tag = "SPA24H"
         THEN Contains(title, "spa") /\ (Contains(title, "24") \/ Contains(title, "hour"))
    ELSE IF secondary_tag = "24H"
         THEN Contains(title, "24") /\ (Contains(title, "hour") \/ Contains(title, "h"))
    ELSE IF secondary_tag = "WRC2"
         THEN Contains(title, "wrc2") \/ ContainsPair(title, "wrc", "2")
              \/ Contains(title, "wrc-2")
    ELSE IF secondary_tag = "JWRC"
         THEN Contains(title, "jwrc") \/ ContainsPair(title, "junior", "wrc")
    ELSE IF secondary_tag = "ARA"
         THEN Contains(title, "ara") \/ ContainsPair(title, "american", "rally")
    ELSE IF secondary_tag = "PSCNA" THEN ContainsPair(title, "sprint", "challenge")
    ELSE IF secondary_tag = "IMSA" THEN Contains(title, "imsa")
    ELSE FALSE

\* a scan that goes on after a tag has passed and keeps the last one
RECURSIVE LastSpecific(_, _, _, _)
LastSpecific(tags, primary_tag, title, description) ==
    IF tags = <<>> THEN primary_tag
    ELSE LET rest == LastSpecific(Tail(tags), primary_tag, title, description)
         IN  IF rest # primary_tag THEN rest
             ELSE IF (Contains(title, Lower(Head(tags)))
                      \/ Contains(description, Lower(Head(tags))))
                     /\ is_more_specific_tag(Head(tags), primary_tag, title, description)
             THEN Head(tags)
             ELSE primary_tag

\* the loop over secondary_tags of detect_series_and_tag, with its break
RECURSIVE FirstSpecific(_, _, _, _)
FirstSpecific(tags, primary_tag, title, description) ==
    IF tags = <<>> THEN primary_tag
    ELSE IF (Contains(title, Lower(Head(tags))) \/ Contains(description, Lower(Head(tags))))
            /\ is_more_specific_tag(Head(tags), primary_tag, title, description)
         THEN Head(tags)
         ELSE FirstSpecific(Tail(tags), primary_tag, title, description)

\* RacingSeriesDetector.detect_series_and_tag
detect_series_and_tag(video_data) ==
    IF \E i \in 1..Len(channels) : channels[i].channelID = video_data.channel_id
    THEN LET channel_info ==
                 channels[CHOOSE i \in 1..Len(channels) :
                              channels[i].channelID = video_data.channel_id]
         IN  [tag |-> FirstSpecific(channel_info.secondary_tags, channel_info.primary_tag,
                                    lower(video_data.title),
                                    lower(video_data.description)),
              priority |-> 5]
    ELSE [tag |-> "OTHER", priority |-> 1]

----------------------------------------------------------------------------
(* The video source: three videos on the two configured channels.  What the *)
(* source reports of a video that does not change is VideoInfo; its         *)
(* liveStreamingDetails are the variable `live`.                            *)

VideoIds == {"va", "vb", "vc", "vd"}

\* playlistItems order, and the order of the items of a videos().list response
video_order == <<"va", "vc", "vb", "vd">>

VideoInfo(v) ==
    CASE v = "va" ->
           [video_id |-> "va", channel_id |-> "ch1",
            title |-> <<"f2", "sprint", "race", "highlights", "round", "3">>,
            description |-> <<>>,
            duration |-> <<"P", "T", "5", "M">>, published_at |-> 0, view_count |-> 6000]
      [] v = "vb" ->
           [video_id |-> "vb", channel_id |-> "ch2",
            title |-> <<"live", "spa", "6", "hour">>,
            description |-> <<"official", "stream">>,
            duration |-> P0D, published_at |-> 0, view_count |-> 100]
      [] v = "vc" ->
           [video_id |-> "vc", channel_id |-> "ch1",
            title |-> <<"official", "race", "replay">>,
            description |-> <<>>,
            duration |-> <<"P", "T", "1", "H", "3", "0", "M">>, published_at |-> 0,
            view_count |-> 1500]
      [] v = "vd" ->
           [video_id |-> "vd", channel_id |-> "ch2",
            title |-> <<"qualifying", "analysis">>,
            description |-> <<>>,
            duration |-> <<"P", "T", "1", "0", "M">>, published_at |-> 0,
            view_count |-> 3000]

NoLiveDetails == [scheduled |-> NoTime, started |-> FALSE, ended |-> FALSE]

\* The liveStreamingDetails a stream can start with: scheduled, or already on air.
InitialLive(v) ==
    CASE v = "va" -> {NoLiveDetails}
      [] v = "vb" -> {[scheduled |-> 2, started |-> FALSE, ended |-> FALSE],
                      [scheduled |-> NoTime, started |-> TRUE, ended |-> FALSE]}
      [] v = "vc" -> {[scheduled |-> 1, started |-> FALSE, ended |-> FALSE]}
      [] v = "vd" -> {NoLiveDetails}

\* The item of channel_id's upload playlist / videos().list response, in order
Listing(channel_id, lst) ==
    SelectSeq(video_order, LAMBDA v : v \in lst /\ VideoInfo(v).channel_id = channel_id)

----------------------------------------------------------------------------
(* The store (database.py).  A table is the set of its rows; the columns    *)
(* a row keeps are those some decision or claim reads.                      *)

\* Database.record_posted_video: INSERT INTO posted_videos (video_id UNIQUE)
record_posted_video(pv, video_data, post_id, t) ==
    IF \E r \in pv : r.video_id = video_data.video_id
    THEN [raised |-> TRUE, posted_videos |-> pv]
    ELSE [raised |-> FALSE,
          posted_videos |-> pv \cup {[video_id |-> video_data.video_id,
                                      series_tag |-> video_data.series_tag,
                                      lemmy_post_id |-> post_id,
                                      posted_at |-> t,
                                      quality_score |-> video_data.quality_score]}]

\* A URL is the form it is written in and the video id it holds:
\* https://www.youtube.com/watch?v=ID, https://youtu.be/ID,
\* https://www.youtube.com/live/ID
UrlForms == {"watch", "short_link", "live"}

\* youtube.py:407: the url of a video's data
video_url(v) == [form |-> "watch", id |-> v]

\* LemmyAPI.extract_youtube_id(url); "none" stands for None
extract_youtube_id(url) ==
    IF url.form \in {"short_link", "watch"} THEN url.id ELSE "none"

\* Database.record_lemmy_post: INSERT OR IGNORE INTO lemmy_posts (post_id UNIQUE)
record_lemmy_post(lp, post_id, url) ==
    IF \E r \in lp : r.post_id = post_id THEN lp
    ELSE lp \cup {[post_id |-> post_id, url |-> url]}

\* The INSERT OR IGNORE of check_for_duplicates: UNIQUE(video_id, title_hash)
insert_duplicate_tracking(dt, video_id, title_hash, channel_id, t) ==
    IF \E e \in dt : e.video_id = video_id /\ e.title_hash = title_hash THEN dt
    ELSE dt \cup {[video_id |-> video_id, title_hash |-> title_hash,
                   channel_id |-> channel_id, detected_at |-> t]}

\* a check that consults none of its three tiers
check_for_duplicates_forgetful(pv, lp, dt, video_id, title, channel_id, hours, t) ==
    [dup |-> FALSE,
     duplicate_tracking |->
         insert_duplicate_tracking(dt, video_id, generate_title_hash(title), channel_id, t)]

\* a check without the tier that looks at the posts of the community
check_for_duplicates_no_url(pv, lp, dt, video_id, title, channel_id, hours, t) ==
    LET title_hash == generate_title_hash(title)
    IN  IF \E r \in pv : r.video_id = video_id
        THEN [dup |-> TRUE, duplicate_tracking |-> dt]
        ELSE IF \E e \in dt : e.title_hash = title_hash /\ e.channel_id = channel_id
                              /\ e.detected_at > t - hours
        THEN [dup |-> TRUE, duplicate_tracking |-> dt]
        ELSE [dup |-> FALSE,
              duplicate_tracking |->
                  insert_duplicate_tracking(dt, video_id, title_hash, channel_id, t)]

\* Database.check_for_duplicates; url LIKE '%video_id%' finds the urls that
\* hold the id, in whatever form
check_for_duplicates(pv, lp, dt, video_id, title, channel_id, hours, t) ==
    LET title_hash == generate_title_hash(title)
        cutoff_time == t - hours
    IN  IF \E r \in pv : r.video_id = video_id
        THEN [dup |-> TRUE, duplicate_tracking |-> dt]
        ELSE IF \E r \in lp : r.url.id = video_id
        THEN [dup |-> TRUE, duplicate_tracking |-> dt]
        ELSE IF \E e \in dt : e.title_hash = title_hash /\ e.channel_id = channel_id
                              /\ e.detected_at > cutoff_time
        THEN [dup |-> TRUE, duplicate_tracking |-> dt]
        ELSE [dup |-> FALSE,
              duplicate_tracking |->
                  insert_duplicate_tracking(dt, video_id, title_hash, channel_id, t)]

\* Database.is_video_in_old_cache
is_video_in_old_cache(cache, video_id, t) ==
    \E r \in cache : r.video_id = video_id /\ r.expiry > t

\* add_video_to_old_cache with the INSERT OR REPLACE carried out
add_video_to_old_cache_inserting(cache, video_id, channel_id, is_livestream, t) ==
    IF is_livestream THEN [raised |-> FALSE, old_video_cache |-> cache]
    ELSE [raised |-> FALSE,
          old_video_cache |->
              {r \in cache : r.video_id # video_id}
              \cup {[video_id |-> video_id, channel_id |-> channel_id,
                     cached_at |-> t, expiry |-> t + cache_days]}]

\* Database.add_video_to_old_cache.  The statement has two placeholders (the ? of
\* '+? days' is inside a string literal) and is given three values, so sqlite3
\* raises ProgrammingError and nothing is inserted.
add_video_to_old_cache(cache, video_id, channel_id, is_livestream, t) ==
    IF is_livestream THEN [raised |-> FALSE, old_video_cache |-> cache]
    ELSE [raised |-> TRUE, old_video_cache |-> cache]

Days == 0..Today(MaxTime)

\* Database.get_youtube_quota_usage
get_youtube_quota_usage(bs, t) ==
    IF bs[Today(t)] = NoRow THEN 0 ELSE bs[Today(t)].youtube_quota_used

\* Database.update_bot_stats
update_bot_stats(bs, made, quota_used, errs, processed, t) ==
    IF bs[Today(t)] # NoRow
    THEN [bs EXCEPT ![Today(t)] =
              [posts_made |-> @.posts_made + made,
               youtube_quota_used |-> @.youtube_quota_used + quota_used,
               errors_count |-> @.errors_count + errs,
               videos_processed |-> @.videos_processed + processed]]
    ELSE [bs EXCEPT ![Today(t)] =
              [posts_made |-> made, youtube_quota_used |-> quota_used,
               errors_count |-> errs, videos_processed |-> processed]]

\* Database.get_recent_posts_count.  t is the host's datetime.now(), a local
\* time; posted_at is SQLite's CURRENT_TIMESTAMP, which is UTC.
get_recent_posts_count(pv, hours, t) ==
    Cardinality({r \in pv : r.posted_at > t - hours})

\* Database.log_error
log_error(log, error_type, function, t) ==
    log \cup {[error_type |-> error_type, function |-> function]}

\* a pass that deletes nothing
cleanup_old_data_idle(dt, cache, t) ==
    [duplicate_tracking |-> dt, old_video_cache |-> cache]

\* Database.cleanup_old_data: the tables it deletes from
cleanup_old_data(dt, cache, t) ==
    [duplicate_tracking |-> {e \in dt : ~(e.detected_at < t - cleanup_days)},
     old_video_cache |-> {r \in cache : ~(r.expiry < t)}]

----------------------------------------------------------------------------
(* The Quota Gate (youtube.py).  Each operator yields the counters as the   *)
(* call leaves them.                                                        *)

\* a check that books the estimate when it admits it
check_quota_limit_reserving(q, bs, estimated_cost, t) ==
    IF q + estimated_cost > run_quota_limit
       \/ get_youtube_quota_usage(bs, t) + estimated_cost > daily_quota_limit
    THEN [ok |-> FALSE, quota_used_this_run |-> q, bot_stats |-> bs]
    ELSE [ok |-> TRUE, quota_used_this_run |-> q + estimated_cost, bot_stats |-> bs]

\* YouTubeAPI.check_quota_limit
check_quota_limit(q, bs, estimated_cost, t) ==
    IF q + estimated_cost > run_quota_limit
    THEN [ok |-> FALSE, quota_used_this_run |-> q, bot_stats |-> bs]
    ELSE IF get_youtube_quota_usage(bs, t) + estimated_cost > daily_quota_limit
    THEN [ok |-> FALSE, quota_used_this_run |-> q, bot_stats |-> bs]
    ELSE [ok |-> TRUE, quota_used_this_run |-> q, bot_stats |-> bs]

\* YouTubeAPI.track_quota_usage
track_quota_usage(q, bs, cost, t) ==
    [quota_used_this_run |-> q + cost,
     bot_stats |->
         IF bs[Today(t)] # NoRow
         THEN [bs EXCEPT ![Today(t)].youtube_quota_used = @ + cost]
         ELSE [bs EXCEPT ![Today(t)] =
                   [posts_made |-> 0, youtube_quota_used |-> cost,
                    errors_count |-> 0, videos_processed |-> 0]]]

----------------------------------------------------------------------------
(* YouTubeAPI.get_channel_recent_videos                                     *)

\* the video data dictionary of youtube.py:360-377 and 401-415
VideoData(v, lv) ==
    [video_id |-> v,
     title |-> VideoInfo(v).title,
     description |-> VideoInfo(v).description,
     channel_id |-> VideoInfo(v).channel_id,
     published_at |-> VideoInfo(v).published_at,
     view_count |-> VideoInfo(v).view_count,
     duration |-> VideoInfo(v).duration,
     is_livestream |-> lv[v].started /\ ~lv[v].ended,
     is_upcoming |-> lv[v].scheduled # NoTime,
     scheduled_start_time |-> lv[v].scheduled]

\* What the three requests of one call can do: all succeed, one raises
\* HttpError, the channel request returns no items, or the first item of the
\* videos response lacks a field the loop reads.
ApiOutcomes == {"ok", "http_channel", "no_channel", "http_playlist", "http_videos",
                "malformed_item"}

\* The pre-filter loop over the playlist items (youtube.py:316-341).
\* st = [ids, old_video_cache, stage, raised]
RECURSIVE PreFilter(_, _, _)
PreFilter(items, st, t) ==
    IF items = <<>> \/ st.raised THEN st
    ELSE LET v == Head(items)
             cutoff_date == t - video_max_age_hours
             might_be_livestream == Contains(VideoInfo(v).title, "live")
         IN  IF is_video_in_old_cache(st.old_video_cache, v, t)
             THEN PreFilter(Tail(items), [st EXCEPT !.stage[v] = "cached"], t)
             ELSE IF VideoInfo(v).published_at < cutoff_date - live_buffer_hours
                     /\ ~might_be_livestream
             THEN LET a == add_video_to_old_cache(st.old_video_cache, v,
                                                  VideoInfo(v).channel_id, FALSE, t)
                  IN  PreFilter(Tail(items),
                                [st EXCEPT !.stage[v] = "prefilter_old",
                                           !.old_video_cache = a.old_video_cache,
                                           !.raised = a.raised], t)
             ELSE PreFilter(Tail(items), [st EXCEPT !.ids = Append(@, v)], t)

\* youtube.py:386-387: an upcoming stream whose scheduled start is before
\* datetime.now().  scheduled_start_time is the source's UTC time with its zone
\* dropped (youtube.py:368-369); t is the host's local time.
past_scheduled_start(is_upcoming, scheduled_start_time, t) ==
    is_upcoming /\ scheduled_start_time # NoTime /\ scheduled_start_time < t

\* The classification loop over the video details (youtube.py:355-417).
\* st = [videos, old_video_cache, stage, raised]; bad is the item that lacks a
\* field ("none": no item does), and reading it raises KeyError.
RECURSIVE Classify(_, _, _, _, _)
Classify(ids, st, lv, bad, t) ==
    IF ids = <<>> \/ st.raised THEN st
    ELSE IF Head(ids) = bad
    THEN [st EXCEPT !.stage[bad] = "malformed", !.raised = TRUE]
    ELSE LET v == Head(ids)
             d == VideoData(v, lv)
             cutoff_date == t - video_max_age_hours
             why == IF ~d.is_livestream /\ ~d.is_upcoming /\ d.published_at < cutoff_date
                    THEN "stale"
                    ELSE IF past_scheduled_start(d.is_upcoming, d.scheduled_start_time, t)
                    THEN "past_start"
                    ELSE IF api_is_youtube_short(d.duration)
                    THEN "short_api"
                    ELSE "returned"
         IN  IF why = "returned"
             THEN Classify(Tail(ids),
                           [st EXCEPT !.videos = Append(@, d), !.stage[v] = why],
                           lv, bad, t)
             ELSE LET a == add_video_to_old_cache(st.old_video_cache, v, d.channel_id,
                                                  FALSE, t)
                  IN  Classify(Tail(ids),
                               [st EXCEPT !.stage[v] = why,
                                          !.old_video_cache = a.old_video_cache,
                                          !.raised = a.raised], lv, bad, t)

\* n calls of track_quota_usage(1)
RECURSIVE TrackCalls(_, _, _, _)
TrackCalls(n, q, bs, t) ==
    IF n = 0 THEN [quota_used_this_run |-> q, bot_stats |-> bs]
    ELSE LET r == TrackCalls(n - 1, q, bs, t)
         IN  track_quota_usage(r.quota_used_this_run, r.bot_stats, 1, t)

\* What get_channel_recent_videos hands back: the videos it returns, the store
\* and counters as it leaves them, whether it raised, the requests it issued
\* (calls) and the cost it reported through track_quota_usage (n).
Fetched(videos, raised, cache, stg, counters, calls, n) ==
    [videos |-> videos, raised |-> raised, old_video_cache |-> cache, stage |-> stg,
     quota_used_this_run |-> counters.quota_used_this_run,
     bot_stats |-> counters.bot_stats, calls |-> calls, tracked |-> n]

\* youtube.py:417-423: the classification loop is over
ClassifiedVideos(cl, q, bs, t) ==
    Fetched(IF cl.raised THEN <<>> ELSE cl.videos, cl.raised, cl.old_video_cache,
            cl.stage, TrackCalls(3, q, bs, t), 3, 3)

\* youtube.py:343-423: the videos request and the classification of its items
FetchDetails(pre, q, bs, lv, outcome, t) ==
    IF outcome = "http_videos"
    THEN Fetched(<<>>, FALSE, pre.old_video_cache, pre.stage, TrackCalls(2, q, bs, t), 3, 2)
    ELSE ClassifiedVideos(Classify(pre.ids,
                                   [videos |-> <<>>,
                                    old_video_cache |-> pre.old_video_cache,
                                    stage |-> pre.stage, raised |-> FALSE], lv,
                                   IF outcome = "malformed_item" THEN Head(pre.ids)
                                   ELSE "none", t),
                          q, bs, t)

\* youtube.py:316-341: after the playlist request, the pre-filter's result
FetchPlaylist(pre, q, bs, lv, outcome, t) ==
    IF pre.raised
    THEN Fetched(<<>>, TRUE, pre.old_video_cache, pre.stage, TrackCalls(2, q, bs, t), 2, 2)
    ELSE IF pre.ids = <<>>
    THEN Fetched(<<>>, FALSE, pre.old_video_cache, pre.stage, TrackCalls(2, q, bs, t), 2, 2)
    ELSE FetchDetails(pre, q, bs, lv, outcome, t)

\* YouTubeAPI.get_channel_recent_videos(channel_id)
get_channel_recent_videos(channel_id, q, bs, cache, stg, lst, lv, outcome, t) ==
    IF ~check_quota_limit(q, bs, 3, t).ok
    THEN Fetched(<<>>, FALSE, cache, stg, TrackCalls(0, q, bs, t), 0, 0)
    ELSE IF outcome = "http_channel"
    THEN Fetched(<<>>, FALSE, cache, stg, TrackCalls(0, q, bs, t), 1, 0)
    ELSE IF outcome = "no_channel"
    THEN Fetched(<<>>, FALSE, cache, stg, TrackCalls(1, q, bs, t), 1, 1)
    ELSE IF outcome = "http_playlist"
    THEN Fetched(<<>>, FALSE, cache, stg, TrackCalls(1, q, bs, t), 2, 1)
    ELSE FetchPlaylist(PreFilter(Listing(channel_id, lst),
                                 [ids |-> <<>>, old_video_cache |-> cache,
                                  stage |-> stg, raised |-> FALSE], t),
                       q, bs, lv, outcome, t)

----------------------------------------------------------------------------
(* BlueFlagBot.fetch_candidate_videos: the loop over one channel's videos   *)
(* (bot.py:239-299).  st = [all_videos, duplicate_tracking, stage, waited]  *)

\* bot.py:251-277: the rules for an upcoming stream; t is datetime.now(),
\* interval the scan interval and max_age video_max_age_hours, in t's unit
upcoming_stream_rule(scheduled_start_time, t, interval, max_age) ==
    IF scheduled_start_time < t THEN "upcoming_past"
    ELSE IF scheduled_start_time > t + max_age THEN "upcoming_far"
    ELSE IF scheduled_start_time > t + interval THEN "upcoming_wait"
    ELSE "included"

\* bot.py:248-299 for one video the dedup check let through: the upcoming-stream
\* rules, the scorer and the tag detector.  The stage it ends in, and the
\* candidate it becomes.
AfterDedup(video, st, acc, tag, t) ==
    LET v == video.video_id
        rule == IF video.is_upcoming
                THEN upcoming_stream_rule(video.scheduled_start_time, t, scan_interval,
                                          video_max_age_hours)
                ELSE "included"
    IN  IF rule = "upcoming_wait"
        THEN [st EXCEPT !.stage[v] = "upcoming_wait", !.waited = @ \cup {v}]
        ELSE IF rule # "included"
        THEN [st EXCEPT !.stage[v] = rule]
        ELSE IF acc.below
        THEN [st EXCEPT !.stage[v] = "low_quality"]
        ELSE IF acc.short
        THEN [st EXCEPT !.stage[v] = "short_scorer"]
        ELSE [st EXCEPT !.stage[v] = "candidate",
                        !.all_videos =
                            Append(@, [video_id |-> v,
                                       is_livestream |-> video.is_livestream,
                                       is_upcoming |-> video.is_upcoming,
                                       quality_score |-> acc.quality_score,
                                       series_tag |-> tag.tag,
                                       priority_score |-> tag.priority])]

\* bot.py:239-248: the dedup check comes first, and a duplicate goes no further
ProcessVideo(video, st, c, t) ==
    IF c.dup
    THEN [st EXCEPT !.duplicate_tracking = c.duplicate_tracking,
                    !.stage[video.video_id] = "duplicate"]
    ELSE AfterDedup(video, [st EXCEPT !.duplicate_tracking = c.duplicate_tracking],
                    is_acceptable_content(video, t), detect_series_and_tag(video), t)

RECURSIVE ProcessVideos(_, _, _, _, _)
ProcessVideos(videos, st, pv, lp, t) ==
    IF videos = <<>> THEN st
    ELSE ProcessVideos(Tail(videos),
                       ProcessVideo(Head(videos), st,
                                    check_for_duplicates(pv, lp, st.duplicate_tracking,
                                                         Head(videos).video_id,
                                                         Head(videos).title,
                                                         Head(videos).channel_id,
                                                         duplicate_check_hours, t),
                                    t),
                       pv, lp, t)

\* list.sort(key=quality_score, reverse=True): descending and stable
RECURSIVE InsertByScore(_, _)
InsertByScore(sorted, x) ==
    IF sorted = <<>> THEN <<x>>
    ELSE IF Head(sorted).quality_score >= x.quality_score
         THEN <<Head(sorted)>> \o InsertByScore(Tail(sorted), x)
         ELSE <<x>> \o sorted

\* the candidates left in the order in which they were found
SortByScore_unsorted(seq) == seq

RECURSIVE SortByScore(_)
SortByScore(seq) ==
    IF seq = <<>> THEN <<>>
    ELSE InsertByScore(SortByScore(SubSeq(seq, 1, Len(seq) - 1)), seq[Len(seq)])

----------------------------------------------------------------------------
(* Publishing (bot.py:307-417, lemmy.py:273-316) and reconciliation         *)
(* (lemmy.py:353-407).  A community post is [id, url, by_bot]; the forum    *)
(* numbers its posts in order of creation.                                  *)

\* int(md5(video_id).hexdigest(), 16) % 10000000: a number fixed by the video
FakePostId(v) ==
    CASE v = "va" -> 101 [] v = "vb" -> 102 [] v = "vc" -> 103 [] v = "vd" -> 104

\* BlueFlagBot.should_post_video
should_post_video(video_data, pv, t) ==
    IF get_recent_posts_count(pv, 2, t) >= max_posts_per_day THEN FALSE
    ELSE IF get_recent_posts_count(pv, 1, t) >= max_posts_per_hour THEN FALSE
    ELSE IF video_data.is_livestream
         THEN ~(video_data.quality_score < livestream_quality_threshold)
         ELSE ~(video_data.quality_score < min_quality_threshold)

\* the post is created; get_community_id fails; the forum returns no post; a
\* call inside create_lemmy_post raises
PublishOutcomes == {"ok", "no_community", "post_failed", "post_raised"}

\* a publish that records the video before the forum has answered
create_lemmy_post_recording(video_data, pv, lp, com, log, tm, outcome, t) ==
    LET rec == record_posted_video(pv, video_data, FakePostId(video_data.video_id), t)
        none == [post_id |-> 0, posted_videos |-> rec.posted_videos, lemmy_posts |-> lp,
                 community |-> com, error_log |-> log]
    IN  IF outcome = "ok" /\ ~rec.raised
        THEN [none EXCEPT !.post_id = FakePostId(video_data.video_id),
                          !.community =
                              IF tm THEN com
                              ELSE com \cup {[id |-> Cardinality(com) + 1,
                                              url |-> video_url(video_data.video_id),
                                              by_bot |-> TRUE]}]
        ELSE none

\* BlueFlagBot.create_lemmy_post, with LemmyAPI.create_post inside it; post_id 0
\* stands for None
create_lemmy_post(video_data, pv, lp, com, log, tm, outcome, t) ==
    LET none == [post_id |-> 0, posted_videos |-> pv, lemmy_posts |-> lp,
                 community |-> com, error_log |-> log]
        v == video_data.video_id
    IN  IF outcome = "no_community" THEN none
        ELSE IF outcome = "post_raised"
        THEN [none EXCEPT !.error_log =
                              log_error(log, "post_creation", "create_lemmy_post", t)]
        ELSE IF tm
        THEN LET r == record_posted_video(pv, video_data, FakePostId(v), t)
             IN  IF r.raised
                 THEN [none EXCEPT !.error_log =
                                       log_error(log, "post_creation", "create_lemmy_post", t)]
                 ELSE [none EXCEPT !.post_id = FakePostId(v),
                                   !.posted_videos = r.posted_videos]
        ELSE IF outcome = "post_failed" THEN none
        ELSE LET post_id == Cardinality(com) + 1
                 com1 == com \cup {[id |-> post_id, url |-> video_url(v), by_bot |-> TRUE]}
                 lp1 == record_lemmy_post(lp, post_id, video_url(v))
                 r == record_posted_video(pv, video_data, post_id, t)
             IN  IF r.raised
                 THEN [post_id |-> 0, posted_videos |-> pv, lemmy_posts |-> lp1,
                       community |-> com1,
                       error_log |-> log_error(log, "post_creation", "create_lemmy_post", t)]
                 ELSE [post_id |-> post_id, posted_videos |-> r.posted_videos,
                       lemmy_posts |-> lp1, community |-> com1, error_log |-> log]

\* LemmyAPI.sync_community_posts: every post read (newest first) goes to
\* lemmy_posts, and INSERT OR IGNORE puts its video into posted_videos.
sync_community_posts(pv, lp, com, ok, t) ==
    IF ~ok \/ com = {} THEN [posted_videos |-> pv, lemmy_posts |-> lp]
    ELSE LET linked == {extract_youtube_id(p.url) : p \in com} \ {"none"}
             newest(v) == CHOOSE i \in {p.id : p \in {x \in com :
                                                         extract_youtube_id(x.url) = v}} :
                              \A p \in com : extract_youtube_id(p.url) = v => p.id <= i
         IN  [lemmy_posts |->
                  lp \cup {[post_id |-> p.id, url |-> p.url] :
                              p \in {x \in com : ~\E r \in lp : r.post_id = x.id}},
              posted_videos |->
                  pv \cup {[video_id |-> v, series_tag |-> "SYNCED",
                            lemmy_post_id |-> newest(v), posted_at |-> t,
                            quality_score |-> 0] :
                              v \in {w \in linked : ~\E r \in pv : r.video_id = w}}]

----------------------------------------------------------------------------
(* State after construction: an empty store, nothing posted                 *)

\* The store outlives the process: the day's row of bot_stats may already hold
\* the cost that earlier runs reported.
PriorUsage == {0, daily_quota_limit - 4}

NoProbe == [op |-> "none"]

\* run_continuous has not been called: self.running is False (bot.py:36)
NotRunning ==
    [running |-> FALSE, in_flight |-> 0, last |-> "none", sleep_time |-> 0,
     left |-> 0, in_sleep |-> 0, after |-> "none", stopped |-> FALSE,
     stop_in_sleep |-> FALSE, slept_after_stop |-> 0, started_after_stop |-> 0]

\* no call of _make_request has been made
NoRequest ==
    [pc |-> "none", attempt |-> 0, outcomes |-> <<>>, delays |-> <<>>,
     login_failed |-> FALSE, result |-> "none"]

NoCall == [result |-> "none", prev_false |-> NoTime, last_false |-> NoTime]

Init ==
    /\ now = 0
    /\ pc = "idle"
    /\ posted_videos = {}
    /\ lemmy_posts = {}
    /\ duplicate_tracking = {}
    /\ old_video_cache = {}
    /\ \E used \in PriorUsage :
           /\ bot_stats = [d \in Days |-> IF d = 0 /\ used > 0
                                          THEN [posts_made |-> 0,
                                                youtube_quota_used |-> used,
                                                errors_count |-> 0,
                                                videos_processed |-> 0]
                                          ELSE NoRow]
           /\ reported = [d \in Days |-> IF d = 0 THEN used ELSE 0]
    /\ error_log = {}
    /\ quota_used_this_run = 0
    /\ posts_made = 0
    /\ slept_after = <<>>
    /\ errors = 0
    /\ videos_processed = 0
    /\ candidate_videos = <<>>
    /\ all_videos = <<>>
    /\ idx = 0
    /\ test_mode \in BOOLEAN
    /\ db_available = TRUE
    /\ community = {}
    /\ listed = VideoIds
    /\ live \in {f \in [VideoIds -> UNION {InitialLive(v) : v \in VideoIds}] :
                    \A v \in VideoIds : f[v] \in InitialLive(v)}
    /\ cycles = 0
    /\ faults = 0
    /\ failure = "none"
    /\ api_calls = 0
    /\ stage = [v \in VideoIds |-> "unseen"]
    /\ waited = {}
    /\ quota_probe = NoProbe
    /\ dedup_probe = [v \in VideoIds |-> NoCall]
    /\ call_probe = NoProbe
    /\ loop = NotRunning
    /\ request = NoRequest

storeVars == <<posted_videos, lemmy_posts, duplicate_tracking, old_video_cache,
               bot_stats, error_log>>
localVars == <<posts_made, slept_after, errors, videos_processed, candidate_videos, all_videos, idx>>
localVars_but_idx == <<posts_made, slept_after, errors, videos_processed, candidate_videos, all_videos>>
sourceVars == <<listed, live>>
probeVars == <<quota_probe, dedup_probe, call_probe>>

----------------------------------------------------------------------------
(* The world outside the process                                            *)

\* 12 hours pass between two cycles
Tick ==
    /\ pc = "idle"
    /\ now < MaxTime
    /\ now' = now + 1
    /\ UNCHANGED <<pc, storeVars, quota_used_this_run, localVars, test_mode, loop, request, db_available, community,
                   sourceVars, cycles, faults, failure, api_calls, reported, stage, waited, probeVars>>

\* a scheduled stream goes on air, on time or late
GoLive(v) ==
    /\ pc = "idle"
    /\ live[v].scheduled # NoTime
    /\ now >= live[v].scheduled
    /\ ~live[v].started
    /\ live' = [live EXCEPT ![v].started = TRUE]
    /\ UNCHANGED <<now, pc, storeVars, quota_used_this_run, localVars, test_mode, loop, request, db_available,
                   community, listed, cycles, faults, failure, api_calls, reported, stage, waited,
                   probeVars>>

\* a stream on air ends
EndStream(v) ==
    /\ pc = "idle"
    /\ live[v].started
    /\ ~live[v].ended
    /\ live' = [live EXCEPT ![v].ended = TRUE]
    /\ UNCHANGED <<now, pc, storeVars, quota_used_this_run, localVars, test_mode, loop, request, db_available,
                   community, listed, cycles, faults, failure, api_calls, reported, stage, waited,
                   probeVars>>

\* the videos somebody else may link in the community
ForeignIds == {"va"}

\* the forms in which other users write a link
ForeignForms == {"watch", "live"}

\* somebody else posts a video's link in the community; once in a behaviour
ForeignPost(v) ==
    /\ pc = "idle"
    /\ ~\E p \in community : ~p.by_bot
    /\ \E form \in ForeignForms :
           community' = community \cup {[id |-> Cardinality(community) + 1,
                                         url |-> [form |-> form, id |-> v],
                                         by_bot |-> FALSE]}
    /\ UNCHANGED <<now, pc, storeVars, quota_used_this_run, localVars, test_mode, loop, request, db_available,
                   sourceVars, cycles, faults, failure, api_calls, reported, stage, waited, probeVars>>

----------------------------------------------------------------------------
(* BlueFlagBot.run_once, one action per step of the cycle                   *)

AuthOutcomes == {"ok", "youtube_failed", "lemmy_failed"}

\* a call ends as `outcome`: a failure is counted, and MaxFaults bounds them
Failing(outcome) ==
    /\ outcome # "ok" => faults < MaxFaults
    /\ faults' = IF outcome = "ok" THEN faults ELSE faults + 1
    /\ failure' = IF outcome = "ok" THEN failure ELSE outcome

\* bot.py:126-146: reset the per-run quota, authenticate, reconcile
RunOnceStart ==
    /\ pc = "idle"
    /\ cycles < MaxCycles
    /\ cycles' = cycles + 1
    /\ quota_used_this_run' = 0
    /\ posts_made' = 0
    /\ slept_after' = <<>>
    /\ errors' = 0
    /\ videos_processed' = 0
    /\ candidate_videos' = <<>>
    /\ all_videos' = <<>>
    /\ idx' = 0
    /\ api_calls' = 0
    /\ stage' = [v \in VideoIds |-> "unseen"]
    /\ \E auth \in AuthOutcomes, sync_ok \in BOOLEAN :
           IF auth # "ok"
           THEN /\ sync_ok
                /\ Failing(auth)
                /\ pc' = "finally"
                /\ UNCHANGED <<posted_videos, lemmy_posts>>
           ELSE LET s == sync_community_posts(posted_videos, lemmy_posts, community,
                                              sync_ok, now)
                IN  /\ Failing(IF sync_ok THEN "ok" ELSE "sync_failed")
                    /\ pc' = "fetch"
                    /\ posted_videos' = s.posted_videos
                    /\ lemmy_posts' = s.lemmy_posts
    /\ quota_probe' = NoProbe
    /\ UNCHANGED <<now, duplicate_tracking, old_video_cache, bot_stats, error_log,
                   test_mode, loop, request, db_available, community, sourceVars, reported, waited, dedup_probe, call_probe>>

\* bot.py:218-219
estimated_quota == Len(channels) * 3

\* what a denied batch estimate found: the two counters and the cost reported
\* so far that day
Denied(q, bs, t) ==
    [op |-> "denied", day |-> Today(t), run |-> q,
     daily |-> get_youtube_quota_usage(bs, t), reported |-> reported[Today(t)]]

\* a fetch that notes the denial and goes on to the channels all the same
FetchStart_unvetoed ==
    /\ pc = "fetch"
    /\ channels # <<>>
    /\ pc' = "channels"
    /\ idx' = 1
    /\ quota_probe' = IF check_quota_limit(quota_used_this_run, bot_stats,
                                           estimated_quota, now).ok
                      THEN quota_probe
                      ELSE Denied(quota_used_this_run, bot_stats, now)
    /\ UNCHANGED <<now, storeVars, quota_used_this_run, localVars_but_idx, test_mode, loop, request, db_available,
                   community, sourceVars, cycles, faults, failure, api_calls, reported, stage, waited,
                   dedup_probe, call_probe>>

\* bot.py:210-226, and bot.py:152-154 when nothing is returned
FetchStart ==
    /\ pc = "fetch"
    /\ IF channels = <<>>
       THEN /\ pc' = "finally"
            /\ idx' = 0
            /\ UNCHANGED <<quota_used_this_run, bot_stats, quota_probe>>
       ELSE LET c == check_quota_limit(quota_used_this_run, bot_stats, estimated_quota, now)
            IN  /\ quota_used_this_run' = c.quota_used_this_run
                /\ bot_stats' = c.bot_stats
                /\ IF c.ok
                   THEN pc' = "channels" /\ idx' = 1 /\ UNCHANGED quota_probe
                   ELSE /\ pc' = "finally"
                        /\ idx' = 0
                        /\ quota_probe' = Denied(quota_used_this_run, bot_stats, now)
    /\ UNCHANGED <<now, posted_videos, lemmy_posts, duplicate_tracking, old_video_cache,
                   error_log, posts_made, slept_after, errors, videos_processed, candidate_videos,
                   all_videos, test_mode, loop, request, db_available, community, sourceVars, cycles, faults, failure, api_calls,
                   reported, stage, waited, dedup_probe, call_probe>>

\* bot.py:186-190: an exception of the fetch leaves through run_once's handler
FetchRaised(r) ==
    /\ error_log' = log_error(error_log, "scan_cycle", "run_once", now)
    /\ errors' = errors + 1
    /\ pc' = "finally"
    /\ stage' = r.stage
    /\ UNCHANGED <<duplicate_tracking, waited, all_videos, candidate_videos,
                   videos_processed, idx>>

\* bot.py:301-305 and 150-154: after the last channel the candidates are sorted
FetchFiltered(f, sorted) ==
    /\ duplicate_tracking' = f.duplicate_tracking
    /\ stage' = f.stage
    /\ waited' = f.waited
    /\ UNCHANGED <<error_log, errors>>
    /\ IF idx < Len(channels)
       THEN /\ all_videos' = f.all_videos
            /\ idx' = idx + 1
            /\ pc' = "channels"
            /\ UNCHANGED <<candidate_videos, videos_processed>>
       ELSE /\ all_videos' = <<>>
            /\ candidate_videos' = sorted
            /\ videos_processed' = Len(sorted)
            /\ idx' = 1
            /\ pc' = IF sorted = <<>> THEN "finally" ELSE "posting"

\* bot.py:229-299: what the channel's fetch returned goes through the filters
FetchReturned(r, f) ==
    /\ quota_used_this_run' = r.quota_used_this_run
    /\ bot_stats' = r.bot_stats
    /\ old_video_cache' = r.old_video_cache
    /\ api_calls' = api_calls + r.calls
    /\ reported' = [reported EXCEPT ![Today(now)] = @ + r.tracked]
    /\ IF r.raised THEN FetchRaised(r)
       ELSE FetchFiltered(f, SortByScore(f.all_videos))

\* fetch_candidate_videos for the channel at idx
FetchFetched(r) ==
    FetchReturned(r, ProcessVideos(r.videos,
                                   [all_videos |-> all_videos,
                                    duplicate_tracking |-> duplicate_tracking,
                                    stage |-> r.stage, waited |-> waited],
                                   posted_videos, lemmy_posts, now))

\* bot.py:229-305 for the channel at idx: fetch its videos, filter them; after the
\* last channel sort and return (bot.py:150-154).
FetchChannel ==
    /\ pc = "channels"
    /\ \E outcome \in ApiOutcomes :
           /\ Failing(outcome)
           /\ FetchFetched(get_channel_recent_videos(channels[idx].channelID,
                                                     quota_used_this_run, bot_stats,
                                                     old_video_cache, stage, listed,
                                                     live, outcome, now))
    /\ UNCHANGED <<now, posted_videos, lemmy_posts, posts_made, slept_after, test_mode, loop, request, db_available, community,
                   sourceVars, cycles, probeVars>>

\* a loop that never stops for the number of posts it has made
reached_max_posts_never(made) == FALSE

\* bot.py:158-161: the run has made its maximum number of posts
reached_max_posts(made) == made >= max_posts_per_run

\* a loop that goes to the next candidate without waiting
sleep_after_post_none(made) == 0

\* bot.py:171-174: the delay after a publish, none after the run's last one
sleep_after_post(made) ==
    IF time_between_posts > 0 /\ made < max_posts_per_run THEN time_between_posts ELSE 0

\* bot.py:157-184: one turn of the loop over the sorted candidates
PostStep ==
    /\ pc = "posting"
    /\ LET video == candidate_videos[idx]
           last == idx = Len(candidate_videos)
       IN  IF reached_max_posts(posts_made)
           THEN /\ pc' = "finally"
                /\ UNCHANGED <<posted_videos, lemmy_posts, community, error_log,
                               posts_made, slept_after, errors, idx, faults, failure>>
           ELSE IF ~should_post_video(video, posted_videos, now)
           THEN /\ pc' = IF last THEN "finally" ELSE "posting"
                /\ idx' = IF last THEN idx ELSE idx + 1
                /\ UNCHANGED <<posted_videos, lemmy_posts, community, error_log,
                               posts_made, slept_after, errors, faults, failure>>
           ELSE \E outcome \in (IF test_mode THEN PublishOutcomes \ {"post_failed"}
                                ELSE PublishOutcomes) :
                  LET r == create_lemmy_post(video, posted_videos, lemmy_posts, community,
                                             error_log, test_mode, outcome, now)
                  IN  /\ Failing(outcome)
                      /\ posted_videos' = r.posted_videos
                      /\ lemmy_posts' = r.lemmy_posts
                      /\ community' = r.community
                      /\ error_log' = r.error_log
                      /\ posts_made' = IF r.post_id # 0 THEN posts_made + 1
                                       ELSE posts_made
                      /\ slept_after' =
                             IF r.post_id # 0
                             THEN Append(slept_after, sleep_after_post(posts_made + 1))
                             ELSE slept_after
                      /\ errors' = IF r.post_id # 0 THEN errors ELSE errors + 1
                      /\ pc' = IF last THEN "finally" ELSE "posting"
                      /\ idx' = IF last THEN idx ELSE idx + 1
    /\ UNCHANGED <<now, duplicate_tracking, old_video_cache, bot_stats,
                   quota_used_this_run, videos_processed, candidate_videos, all_videos,
                   test_mode, loop, request, db_available, sourceVars, cycles, api_calls, reported,
                   stage, waited, probeVars>>

\* bot.py:192-201: the finally block; whether it is "around 3 AM" is the clock's
Finish ==
    /\ pc = "finally"
    /\ pc' = "idle"
    /\ bot_stats' = update_bot_stats(bot_stats, posts_made, quota_used_this_run, errors,
                                     videos_processed, now)
    /\ \E maintenance \in BOOLEAN :
           IF maintenance
           THEN LET c == cleanup_old_data(duplicate_tracking, old_video_cache, now)
                IN  /\ duplicate_tracking' = c.duplicate_tracking
                    /\ old_video_cache' = c.old_video_cache
           ELSE UNCHANGED <<duplicate_tracking, old_video_cache>>
    /\ posts_made' = 0
    /\ slept_after' = <<>>
    /\ errors' = 0
    /\ videos_processed' = 0
    /\ candidate_videos' = <<>>
    /\ all_videos' = <<>>
    /\ idx' = 0
    /\ api_calls' = 0
    /\ stage' = [v \in VideoIds |-> "unseen"]
    /\ failure' = "none"
    /\ UNCHANGED <<now, posted_videos, lemmy_posts, error_log, quota_used_this_run,
                   test_mode, loop, request, db_available, community, sourceVars, cycles, faults,
                   reported, waited, probeVars>>

Next ==
    \/ Tick
    \/ \E v \in VideoIds : GoLive(v)
    \/ \E v \in VideoIds : EndStream(v)
    \/ \E v \in ForeignIds : ForeignPost(v)
    \/ RunOnceStart
    \/ FetchStart
    \/ FetchChannel
    \/ PostStep
    \/ Finish

Spec == Init /\ [][Next]_vars

----------------------------------------------------------------------------
(* A shutdown signal during a publish.  The daemon's handler                *)
(* (blueflagbot.py:79-90) calls stop() and then sys.exit(0): SystemExit is  *)
(* raised in the main thread at the point the signal found it, passes the   *)
(* `except Exception` handlers of create_lemmy_post and run_once, runs      *)
(* run_once's finally block and ends the process.                           *)

\* where the signal finds a production publish: before the request is sent,
\* when the forum has created the post, after LemmyAPI.create_post has written
\* lemmy_posts, after record_posted_video has committed
SignalPoints == {"before_request", "post_created", "lemmy_post_recorded",
                 "video_recorded"}

\* bot.py:392-405 and lemmy.py:303-313 up to the point the signal arrives
interrupted_publish(video_data, pv, lp, com, point, t) ==
    LET post_id == Cardinality(com) + 1
        v == video_data.video_id
    IN  [community |->
             IF point = "before_request" THEN com
             ELSE com \cup {[id |-> post_id, url |-> video_url(v), by_bot |-> TRUE]},
         lemmy_posts |->
             IF point \in {"lemmy_post_recorded", "video_recorded"}
             THEN record_lemmy_post(lp, post_id, video_url(v)) ELSE lp,
         posted_videos |->
             IF point = "video_recorded"
             THEN record_posted_video(pv, video_data, post_id, t).posted_videos
             ELSE pv]

\* the signal arrives while create_lemmy_post is publishing the candidate at
\* idx; the finally block of run_once (bot.py:192-196) runs on the way out
PostInterrupted ==
    /\ pc = "posting"
    /\ ~test_mode
    /\ ~reached_max_posts(posts_made)
    /\ should_post_video(candidate_videos[idx], posted_videos, now)
    /\ \E point \in SignalPoints :
           LET r == interrupted_publish(candidate_videos[idx], posted_videos,
                                        lemmy_posts, community, point, now)
           IN  /\ community' = r.community
               /\ lemmy_posts' = r.lemmy_posts
               /\ posted_videos' = r.posted_videos
    /\ bot_stats' = update_bot_stats(bot_stats, posts_made, quota_used_this_run, errors,
                                     videos_processed, now)
    /\ pc' = "exited"
    /\ UNCHANGED <<now, duplicate_tracking, old_video_cache, error_log,
                   quota_used_this_run, localVars, test_mode, loop, request, db_available,
                   sourceVars, cycles, faults, failure, api_calls, reported, stage,
                   waited, probeVars>>

NextShutdown == Next \/ PostInterrupted

SpecShutdown == Init /\ [][NextShutdown]_vars

----------------------------------------------------------------------------
(* The Quota Gate on its own: any sequence of checks, reports and resets    *)

QuotaCosts == 0..run_quota_limit + 1

\* one call of check_quota_limit(cost), noting what it found and answered
QuotaCheck ==
    \E cost \in QuotaCosts :
        LET c == check_quota_limit(quota_used_this_run, bot_stats, cost, now)
        IN  /\ quota_used_this_run' = c.quota_used_this_run
            /\ bot_stats' = c.bot_stats
            /\ quota_probe' = [op |-> "check", cost |-> cost, ok |-> c.ok,
                               day |-> Today(now), run |-> quota_used_this_run,
                               daily |-> get_youtube_quota_usage(bot_stats, now)]
            /\ UNCHANGED <<now, pc, posted_videos, lemmy_posts, duplicate_tracking,
                           old_video_cache, error_log, localVars, test_mode, loop, request, db_available, community,
                           sourceVars, cycles, faults, failure, api_calls, reported, stage, waited,
                           dedup_probe, call_probe>>

\* one call of track_quota_usage(cost)
QuotaTrack ==
    \E cost \in 1..3 :
        LET r == track_quota_usage(quota_used_this_run, bot_stats, cost, now)
        IN  /\ quota_used_this_run + cost <= MaxQuota
            /\ get_youtube_quota_usage(bot_stats, now) + cost <= MaxQuota
            /\ quota_used_this_run' = r.quota_used_this_run
            /\ bot_stats' = r.bot_stats
            /\ quota_probe' = NoProbe
            /\ UNCHANGED <<now, pc, posted_videos, lemmy_posts, duplicate_tracking,
                           old_video_cache, error_log, localVars, test_mode, loop, request, db_available, community,
                           sourceVars, cycles, faults, failure, api_calls, reported, stage, waited,
                           dedup_probe, call_probe>>

\* YouTubeAPI.reset_quota_usage
QuotaReset ==
    /\ quota_used_this_run' = 0
    /\ quota_probe' = NoProbe
    /\ UNCHANGED <<now, pc, storeVars, localVars, test_mode, loop, request, db_available, community, sourceVars,
                   cycles, faults, failure, api_calls, reported, stage, waited, dedup_probe, call_probe>>

\* time passes; at midnight the day's row of bot_stats is a new one
QuotaTick ==
    /\ now < MaxTime
    /\ now' = now + 1
    /\ quota_probe' = NoProbe
    /\ UNCHANGED <<pc, storeVars, quota_used_this_run, localVars, test_mode, loop, request, db_available, community,
                   sourceVars, cycles, faults, failure, api_calls, reported, stage, waited, dedup_probe, call_probe>>

NextQuota == QuotaCheck \/ QuotaTrack \/ QuotaReset \/ QuotaTick

SpecQuota == Init /\ [][NextQuota]_vars

----------------------------------------------------------------------------
(* YouTubeAPI.get_subscription_channels, the paginated channel listing, on  *)
(* its own: listings of up to MaxPages pages, any request of which may fail *)

\* youtube.py:224-250: the requests from `page` on.  fail_at is the page whose
\* request raises HttpError (0: none does); a page's cost joins total_cost
\* once its request has completed.
RECURSIVE ListPages(_, _, _, _, _, _, _)
ListPages(page, pages, fail_at, total_cost, q, bs, t) ==
    IF page = fail_at
    THEN [raised |-> TRUE, total_cost |-> total_cost, calls |-> page]
    ELSE IF page = pages
    THEN [raised |-> FALSE, total_cost |-> total_cost + 1, calls |-> page]
    ELSE IF ~check_quota_limit(q, bs, 1, t).ok
    THEN [raised |-> FALSE, total_cost |-> total_cost + 1, calls |-> page]
    ELSE ListPages(page + 1, pages, fail_at, total_cost + 1, q, bs, t)

\* what the listing leaves: the counters, the requests issued (calls), those
\* that completed, the cost given to track_quota_usage, whether a request failed
Listed(counters, calls, completed, tracked, failed) ==
    [quota_used_this_run |-> counters.quota_used_this_run,
     bot_stats |-> counters.bot_stats,
     calls |-> calls, completed |-> completed, tracked |-> tracked, failed |-> failed]

\* youtube.py:252-260: total_cost is reported after the loop, and the HttpError
\* handler returns without reporting anything
ListingDone(l, q, bs, t) ==
    IF l.raised
    THEN Listed([quota_used_this_run |-> q, bot_stats |-> bs], l.calls, l.total_cost,
                0, TRUE)
    ELSE Listed(track_quota_usage(q, bs, l.total_cost, t), l.calls, l.total_cost,
                l.total_cost, FALSE)

\* YouTubeAPI.get_subscription_channels
get_subscription_channels(q, bs, pages, fail_at, t) ==
    IF ~check_quota_limit(q, bs, 1, t).ok
    THEN Listed([quota_used_this_run |-> q, bot_stats |-> bs], 0, 0, 0, FALSE)
    ELSE ListingDone(ListPages(1, pages, fail_at, 0, q, bs, t), q, bs, t)

\* one call of get_subscription_channels, noting the counters it found
SubsListed(r) ==
    /\ r.quota_used_this_run <= MaxQuota
    /\ get_youtube_quota_usage(r.bot_stats, now) <= MaxQuota
    /\ quota_used_this_run' = r.quota_used_this_run
    /\ bot_stats' = r.bot_stats
    /\ api_calls' = r.calls
    /\ reported' = [reported EXCEPT ![Today(now)] = @ + r.tracked]
    /\ quota_probe' = [op |-> "listing", failed |-> r.failed, completed |-> r.completed,
                       day |-> Today(now), run |-> quota_used_this_run,
                       daily |-> get_youtube_quota_usage(bot_stats, now)]

SubsList ==
    /\ \E pages \in 1..MaxPages, fail_at \in 0..MaxPages :
           /\ fail_at <= pages
           /\ SubsListed(get_subscription_channels(quota_used_this_run, bot_stats,
                                                   pages, fail_at, now))
    /\ UNCHANGED <<now, pc, posted_videos, lemmy_posts, duplicate_tracking,
                   old_video_cache, error_log, localVars, test_mode, loop, request, db_available,
                   community, sourceVars, cycles, faults, failure, stage, waited,
                   dedup_probe, call_probe>>

NextSubs == SubsList \/ QuotaReset \/ QuotaTick

SpecSubs == Init /\ [][NextSubs]_vars

----------------------------------------------------------------------------
(* BlueFlagBot.should_post_video on its own: any candidate against any      *)
(* history of published records, on a host in any of UtcOffsets             *)

\* the host's zone, as datetime.now() minus UTC in 12 h units: UTC, UTC+12
UtcOffsets == {0, 1}

\* quality scores on both sides of the two thresholds
Scores == {0, livestream_quality_threshold, min_quality_threshold - 1,
           min_quality_threshold, 100}

\* the published records whose posted_at lies within the last 24 hours
PostedLastDay == {r \in posted_videos : r.posted_at > now - 2}

\* the published records whose posted_at lies within the last hour; the
\* clock's step is the shortest span the model tells apart
PostedLastHour == {r \in posted_videos : r.posted_at > now - 1}

\* a video is published and recorded (Database.record_posted_video)
AdmitRecord(v) ==
    LET r == record_posted_video(posted_videos,
                                 [video_id |-> v, series_tag |-> "F1", quality_score |-> 70],
                                 FakePostId(v), now)
    IN  /\ ~r.raised
        /\ posted_videos' = r.posted_videos
        /\ UNCHANGED <<now, pc, lemmy_posts, duplicate_tracking, old_video_cache,
                       bot_stats, error_log, quota_used_this_run, localVars, test_mode, loop, request,
                       db_available, community, sourceVars, cycles, faults, failure,
                       api_calls, reported, stage, waited, probeVars>>

\* one call of should_post_video, noting what the store held and the answer
AdmitCheck ==
    /\ \E score \in Scores, is_livestream \in BOOLEAN, utc_offset \in UtcOffsets :
           call_probe' =
               [op |-> "admit", quality_score |-> score, is_livestream |-> is_livestream,
                utc_offset |-> utc_offset,
                last_day |-> Cardinality(PostedLastDay),
                last_hour |-> Cardinality(PostedLastHour),
                result |-> should_post_video([quality_score |-> score,
                                              is_livestream |-> is_livestream],
                                             posted_videos, now + utc_offset)]
    /\ UNCHANGED <<now, pc, storeVars, quota_used_this_run, localVars, test_mode, loop, request,
                   db_available, community, sourceVars, cycles, faults, failure,
                   api_calls, reported, stage, waited, quota_probe, dedup_probe>>

InitAdmit == Init /\ ~test_mode /\ bot_stats[0] = NoRow /\ live["vb"].scheduled = NoTime

NextAdmit ==
    \/ \E v \in VideoIds : AdmitRecord(v)
    \/ AdmitCheck
    \/ Tick

SpecAdmit == InitAdmit /\ [][NextAdmit]_vars

----------------------------------------------------------------------------
(* run_continuous while the state store is unavailable: every operation of  *)
(* Database raises (execute and execute_and_commit re-raise what sqlite3    *)
(* raises, database.py:186-234).  pc goes on through run_continuous:        *)
(* cycle_raised, fatal, terminated.                                         *)

\* the store stops answering between two cycles
StoreFails ==
    /\ pc = "idle"
    /\ db_available
    /\ db_available' = FALSE
    /\ UNCHANGED <<now, pc, storeVars, quota_used_this_run, localVars, test_mode, loop, request,
                   community, sourceVars, cycles, faults, failure, api_calls, reported,
                   stage, waited, probeVars>>

\* bot.py:122-201 with the store down.  The first store operation of the try
\* block raises into the handler at bot.py:186-190, whose log_error raises; a
\* cycle that returns before any (authentication fails) goes straight to the
\* finally block.  There update_bot_stats raises, and the exception leaves
\* run_once.
OutageRunOnce ==
    /\ pc = "idle"
    /\ ~db_available
    /\ cycles < MaxCycles
    /\ cycles' = cycles + 1
    /\ quota_used_this_run' = 0
    /\ pc' = "cycle_raised"
    /\ UNCHANGED <<now, storeVars, localVars, test_mode, loop, request, db_available, community,
                   sourceVars, faults, failure, api_calls, reported, stage, waited,
                   probeVars>>

\* bot.py:84-87: the handler around run_once calls log_error, which raises;
\* the exception leaves the while loop for the handler at bot.py:116
RunContinuousExcept ==
    /\ pc = "cycle_raised"
    /\ pc' = IF db_available THEN "idle" ELSE "fatal"
    /\ UNCHANGED <<now, storeVars, quota_used_this_run, localVars, test_mode, loop, request,
                   db_available, community, sourceVars, cycles, faults, failure,
                   api_calls, reported, stage, waited, probeVars>>

\* bot.py:116-120: the outer handler calls log_error too; it raises, stop() is
\* not reached and the exception leaves run_continuous
RunContinuousFatal ==
    /\ pc = "fatal"
    /\ pc' = IF db_available THEN "stopped" ELSE "terminated"
    /\ UNCHANGED <<now, storeVars, quota_used_this_run, localVars, test_mode, loop, request,
                   db_available, community, sourceVars, cycles, faults, failure,
                   api_calls, reported, stage, waited, probeVars>>

NextOutage ==
    \/ Tick
    \/ \E v \in VideoIds : GoLive(v)
    \/ StoreFails
    \/ OutageRunOnce
    \/ RunContinuousExcept
    \/ RunContinuousFatal

SpecOutage == Init /\ [][NextOutage]_vars

----------------------------------------------------------------------------
(* BlueFlagBot.run_continuous (bot.py:70-120) with the clock in seconds.    *)
(* pc goes through the loop: while, run_once, for, sleep, rest, overrun,    *)
(* returned.  A cycle is its start, its end and the seconds it took; what   *)
(* it does to the store is the specification Spec.                          *)

\* bot.py:97
sleep_increment == 5

\* the seconds a cycle can take: short, nearly the interval, the interval, more
CycleSeconds == {10, interval_minutes * 60 - 7, interval_minutes * 60,
                 interval_minutes * 60 + 200}

\* what the loop leaves alone
outsideLoop == <<now, posted_videos, lemmy_posts, duplicate_tracking, old_video_cache,
                 bot_stats, quota_used_this_run, localVars, test_mode, request,
                 db_available, community, sourceVars, faults, failure, api_calls,
                 reported, stage, waited, probeVars>>

\* bot.py:74: self.running = True
RunContinuous ==
    /\ pc = "idle"
    /\ loop = NotRunning
    /\ loop' = [loop EXCEPT !.running = TRUE]
    /\ pc' = "while"
    /\ UNCHANGED <<outsideLoop, error_log, cycles>>

\* a scheduler that starts the next cycle when it is due, whatever the loop does
at_while_test_on_timer(position) == position \in {"while", "run_once"}

\* bot.py:78: control is at the while test: the loop's body has run to its end
at_while_test(position) == position = "while"

\* bot.py:78-83: the while test, and the call of run_once
LoopWhile ==
    /\ at_while_test(pc)
    /\ IF loop.running
       THEN /\ cycles < MaxCycles
            /\ cycles' = cycles + 1
            /\ pc' = "run_once"
            /\ loop' = [loop EXCEPT !.in_flight = @ + 1,
                                    !.started_after_stop =
                                        IF loop.stopped THEN @ + 1 ELSE @]
       ELSE /\ pc' = "returned"
            /\ UNCHANGED <<cycles, loop>>
    /\ UNCHANGED <<outsideLoop, error_log>>

\* bot.py:81-91: run_once returns, or raises into the handler at bot.py:84-87;
\* elapsed seconds have passed since start_time
LoopRunOnceEnds ==
    /\ pc = "run_once"
    /\ \E raised \in BOOLEAN, elapsed \in CycleSeconds :
           LET sleep_time == Max(0, interval_minutes * 60 - elapsed)
           IN  /\ error_log' = IF raised
                               THEN log_error(error_log, "scan_cycle", "run_continuous",
                                              now)
                               ELSE error_log
               /\ loop' = [loop EXCEPT !.in_flight = @ - 1,
                                       !.last = IF raised THEN "raised" ELSE "returned",
                                       !.sleep_time = sleep_time,
                                       !.left = sleep_time \div sleep_increment]
               /\ pc' = IF sleep_time > 0 THEN "for" ELSE "overrun"
    /\ UNCHANGED <<outsideLoop, cycles>>

\* a sleep loop that does not look at self.running
sleep_goes_on_unchecked(running) == TRUE

\* bot.py:99-100 and 105: the sleep goes on only while self.running
sleep_goes_on(running) == running

\* time.sleep(seconds) is called; control comes back at `after`
Sleeping(seconds, after) ==
    [loop EXCEPT !.in_sleep = seconds, !.after = after,
                 !.slept_after_stop = IF loop.stopped THEN @ + seconds ELSE @]

\* bot.py:98-101: one turn of the for loop over the sleep increments
LoopFor ==
    /\ pc = "for"
    /\ IF loop.left > 0 /\ sleep_goes_on(loop.running)
       THEN /\ pc' = "sleep"
            /\ loop' = [Sleeping(sleep_increment, "for") EXCEPT !.left = @ - 1]
       ELSE /\ pc' = "rest"
            /\ UNCHANGED loop
    /\ UNCHANGED <<outsideLoop, error_log, cycles>>

\* bot.py:103-106: the rest of sleep_time
LoopRest ==
    /\ pc = "rest"
    /\ IF loop.sleep_time % sleep_increment > 0 /\ sleep_goes_on(loop.running)
       THEN /\ pc' = "sleep"
            /\ loop' = Sleeping(loop.sleep_time % sleep_increment, "while")
       ELSE /\ pc' = "while"
            /\ UNCHANGED loop
    /\ UNCHANGED <<outsideLoop, error_log, cycles>>

\* bot.py:107-110: the cycle took the interval or longer
LoopOverrun ==
    /\ pc = "overrun"
    /\ pc' = "sleep"
    /\ loop' = Sleeping(1, "while")
    /\ UNCHANGED <<outsideLoop, error_log, cycles>>

\* time.sleep returns
LoopSleepEnds ==
    /\ pc = "sleep"
    /\ pc' = loop.after
    /\ loop' = [loop EXCEPT !.in_sleep = 0, !.after = "none"]
    /\ UNCHANGED <<outsideLoop, error_log, cycles>>

\* the positions of the inter-cycle sleep (bot.py:93-110)
SleepPositions == {"for", "sleep", "rest", "overrun"}

\* bot.py:419-430: stop() is called while the loop runs.  A time.sleep call in
\* progress has at most its whole length left.
LoopStop ==
    /\ pc \in {"while", "run_once"} \cup SleepPositions
    /\ loop.running
    /\ loop' = [loop EXCEPT !.running = FALSE, !.stopped = TRUE,
                            !.stop_in_sleep = pc \in SleepPositions,
                            !.slept_after_stop = loop.in_sleep]
    /\ UNCHANGED <<pc, outsideLoop, error_log, cycles>>

\* bot.py:112-114: KeyboardInterrupt is raised wherever the loop is; a cycle in
\* flight is left through its finally block, the handler calls stop()
LoopInterrupt ==
    /\ pc \in {"while", "run_once"} \cup SleepPositions
    /\ pc' = "returned"
    /\ loop' = [loop EXCEPT !.running = FALSE, !.stopped = TRUE, !.in_flight = 0,
                            !.in_sleep = 0, !.after = "none"]
    /\ UNCHANGED <<outsideLoop, error_log, cycles>>

NextLoop ==
    \/ RunContinuous
    \/ LoopWhile
    \/ LoopRunOnceEnds
    \/ LoopFor
    \/ LoopRest
    \/ LoopOverrun
    \/ LoopSleepEnds
    \/ LoopStop
    \/ LoopInterrupt

SpecLoop == InitAdmit /\ [][NextLoop]_vars

----------------------------------------------------------------------------
(* ContentScorer.calculate_content_quality_score on its own: titles and     *)
(* descriptions that pile up every kind of keyword, in either case          *)

ScoreTitles ==
    { <<>>,
      <<"race", "highlights">>,
      <<"Race", "highlights", "SHORTS">>,
      <<"Podcast", "official", "LIVE", "race", "qualifying">>,
      <<"official", "LIVE", "Race", "qualifying", "analysis", "review", "special",
        "stage">>,
      <<"my", "reaction", "to", "the", "race">>,
      <<"official", "race", "replay">>,
      <<"reaction", "rumor", "drama", "clickbait">>,
      <<"wrc", "rally", "stage">> }

ScoreDescriptions ==
    { <<>>,
      <<"official", "live", "race", "qualifying", "analysis", "review">>,
      <<"reaction", "rumor", "drama", "clickbait">> }

ViewCounts == {0, 1500, 3000, 6000}

\* one call of calculate_content_quality_score, noting the candidate and the score
ScoreCall ==
    /\ \E title \in ScoreTitles, description \in ScoreDescriptions,
          view_count \in ViewCounts, age \in {0, 3}, is_livestream \in BOOLEAN :
           call_probe' =
               [op |-> "score", title |-> title, description |-> description,
                view_count |-> view_count, age |-> age, is_livestream |-> is_livestream,
                result |-> calculate_content_quality_score(
                               [title |-> title, description |-> description,
                                view_count |-> view_count, published_at |-> now - age,
                                is_livestream |-> is_livestream], now)]
    /\ UNCHANGED <<now, pc, storeVars, quota_used_this_run, localVars, test_mode, loop, request,
                   db_available, community, sourceVars, cycles, faults, failure,
                   api_calls, reported, stage, waited, quota_probe, dedup_probe>>

NextScore == ScoreCall \/ Tick

SpecScore == InitAdmit /\ [][NextScore]_vars

----------------------------------------------------------------------------
(* RacingSeriesDetector.detect_series_and_tag on its own: videos of the two *)
(* configured channels and of a channel that is not configured              *)

\* one call of detect_series_and_tag, noting the video and the answer
TagCall ==
    /\ \E channel_id \in {"ch1", "ch2", "ch9"},
          title \in {<<"LMP2", "spa", "24", "hour">>, <<"spa", "24", "hour">>,
                     <<"f2", "sprint", "race">>, <<"official", "race", "replay">>},
          description \in {<<>>, <<"spa24h", "lmp2">>, <<"spa24h">>, <<"f2">>} :
           call_probe' =
               [op |-> "tag", channel_id |-> channel_id, title |-> title,
                description |-> description,
                result |-> detect_series_and_tag([channel_id |-> channel_id, title |-> title,
                                                  description |-> description])]
    /\ UNCHANGED <<now, pc, storeVars, quota_used_this_run, localVars, test_mode, loop, request,
                   db_available, community, sourceVars, cycles, faults, failure,
                   api_calls, reported, stage, waited, quota_probe, dedup_probe>>

NextTag == TagCall \/ Tick

SpecTag == InitAdmit /\ [][NextTag]_vars

----------------------------------------------------------------------------
(* LemmyAPI._make_request: one call, attempt by attempt.  request.pc goes   *)
(* none, attempt, sleeping, returned; an attempt ends with a response, with *)
(* a RequestException or with status 401.  login() is taken by its result.  *)

\* error_handling.max_retries, retry_delay_seconds, backoff_factor (defaults)
max_retries == 3
retry_delay == 60
backoff_factor == 2

\* a delay that does not grow with the attempts
backoff_delay_flat(attempt) == retry_delay

\* lemmy.py:221: delay = self.retry_delay * (self.backoff_factor ** attempt)
backoff_delay(attempt) == retry_delay * backoff_factor ^ attempt

\* what a call of _make_request leaves alone
outsideRequest == <<now, pc, storeVars, quota_used_this_run, localVars, test_mode, loop,
                    db_available, community, sourceVars, cycles, faults, failure,
                    api_calls, reported, stage, waited, probeVars>>

\* the call returns
Returned(r, result) == [r EXCEPT !.pc = "returned", !.result = result]

\* lemmy.py:195: the for loop over range(max_retries) goes to its next turn,
\* or is over and the function ends without a return statement
NextAttempt(r) ==
    IF r.attempt + 1 < max_retries
    THEN [r EXCEPT !.attempt = @ + 1, !.pc = "attempt"]
    ELSE Returned(r, "None")

\* lemmy.py:190-193: without a token the call logs in first
RequestStart ==
    /\ request.pc = "none"
    /\ \E has_token \in BOOLEAN, login_ok \in BOOLEAN :
           request' = IF ~has_token /\ ~login_ok
                      THEN Returned([request EXCEPT !.login_failed = TRUE], "None")
                      ELSE [request EXCEPT !.pc = "attempt"]
    /\ UNCHANGED outsideRequest

\* lemmy.py:195-227: one turn of the for loop
RequestAttempt ==
    /\ request.pc = "attempt"
    /\ \E outcome \in {"ok", "transient", "unauthorized"}, login_ok \in BOOLEAN :
           LET r == [request EXCEPT !.outcomes = Append(@, outcome)]
           IN  request' =
                   CASE outcome = "ok" -> Returned(r, "response")
                     [] outcome = "unauthorized" ->
                            IF login_ok THEN NextAttempt(r)
                            ELSE Returned([r EXCEPT !.login_failed = TRUE], "None")
                     [] outcome = "transient" ->
                            IF r.attempt < max_retries - 1
                            THEN [r EXCEPT !.pc = "sleeping",
                                           !.delays = Append(@, [after |-> r.attempt,
                                                                 seconds |-> backoff_delay(r.attempt)])]
                            ELSE Returned(r, "None")
    /\ UNCHANGED outsideRequest

\* lemmy.py:223: time.sleep(delay) is over
RequestSleepEnds ==
    /\ request.pc = "sleeping"
    /\ request' = NextAttempt(request)
    /\ UNCHANGED outsideRequest

RequestStep == RequestStart \/ RequestAttempt \/ RequestSleepEnds

NextRequest == RequestStep \/ Tick

SpecRequest == InitAdmit /\ [][NextRequest]_vars /\ WF_vars(RequestStep)

----------------------------------------------------------------------------
(* Database.cleanup_old_data on its own: one maintenance pass over a store  *)
(* that holds tracking rows and cache rows of several ages, a published     *)
(* record, a post of the community and the day's counters                   *)

\* Database.cleanup_old_data at the instant `utc` on a host whose clock shows
\* utc + utc_offset: the cutoff of duplicate_tracking comes from the host's
\* clock (detected_at is CURRENT_TIMESTAMP), that of old_video_cache from
\* SQLite's datetime('now')
cleanup_old_data_on_host(dt, cache, utc, utc_offset) ==
    [duplicate_tracking |-> cleanup_old_data(dt, cache, utc + utc_offset).duplicate_tracking,
     old_video_cache |-> cleanup_old_data(dt, cache, utc).old_video_cache]

\* ages of the tracking rows, in 12 h units: a day, three days, and around
\* the thirty days of cleanup_old_data
TrackingAges == {2, 6, cleanup_days - 1, cleanup_days, cleanup_days + 1}

\* expiry of the cache rows against the time of the pass
ExpiryAges == {0 - 1, 0, 1}

\* the host's clock against UTC, in 12 h units: west of, at and east of it
HostOffsets == UtcOffsets \cup {0 - 1}

\* one maintenance pass: the store as it was is noted, the pass is made
CleanupCall ==
    /\ call_probe = NoProbe
    /\ \E ages \in SUBSET TrackingAges, expired \in SUBSET ExpiryAges,
          utc_offset \in HostOffsets :
           LET dt == {[video_id |-> "va", title_hash |-> <<"age", a>>,
                       channel_id |-> "ch1", detected_at |-> now - a] : a \in ages}
               cache == {[video_id |-> "vd", channel_id |-> <<"ch2", a>>,
                          cached_at |-> now - a - cache_days, expiry |-> now - a] :
                             a \in expired}
               pv == record_posted_video({}, [video_id |-> "vc", series_tag |-> "F1",
                                              quality_score |-> 70],
                                         FakePostId("vc"), now - 1).posted_videos
               lp == record_lemmy_post({}, FakePostId("vc"), video_url("vc"))
               bs == update_bot_stats(bot_stats, 1, 3, 0, 1, now)
               c == cleanup_old_data_on_host(dt, cache, now, utc_offset)
           IN  /\ call_probe' = [op |-> "cleanup", utc_offset |-> utc_offset, at |-> now,
                                 duplicate_tracking |-> dt, old_video_cache |-> cache,
                                 posted_videos |-> pv, lemmy_posts |-> lp, bot_stats |-> bs]
               /\ duplicate_tracking' = c.duplicate_tracking
               /\ old_video_cache' = c.old_video_cache
               /\ posted_videos' = pv
               /\ lemmy_posts' = lp
               /\ bot_stats' = bs
    /\ UNCHANGED <<now, pc, error_log, quota_used_this_run, localVars, test_mode, loop, request,
                   db_available, community, sourceVars, cycles, faults, failure,
                   api_calls, reported, stage, waited, quota_probe, dedup_probe>>

NextCleanup == CleanupCall \/ Tick

SpecCleanup == InitAdmit /\ [][NextCleanup]_vars

----------------------------------------------------------------------------
(* The upcoming-stream rules on their own, with the clock in minutes: the   *)
(* classifier's test (youtube.py:386-391) and then the orchestrator's       *)
(* (bot.py:251-277), for streams scheduled around the next scan, on hosts   *)
(* in several zones                                                         *)

\* the scheduled start, in minutes after the moment of the scan
StartDelays == {0 - 10, 0, 10, 29, 30, 31, 120, 1440, 1441}

\* the host's zone, as datetime.now() minus UTC in minutes: UTC, UTC+1, UTC-5
UtcOffsetMinutes == {0, 60, 0 - 300}

\* what the two tests make of an upcoming stream scheduled at scheduled_start_time
\* (UTC) when the host's clock shows t
upcoming_admission(scheduled_start_time, t) ==
    IF past_scheduled_start(TRUE, scheduled_start_time, t) THEN "past_start"
    ELSE upcoming_stream_rule(scheduled_start_time, t, interval_minutes, max_age_minutes)

\* one upcoming stream goes through the two tests
UpcomingCall ==
    /\ \E delay \in StartDelays, utc_offset \in UtcOffsetMinutes :
           call_probe' =
               [op |-> "upcoming", delay |-> delay, utc_offset |-> utc_offset,
                result |-> upcoming_admission(now * 720 + delay,
                                              now * 720 + utc_offset)]
    /\ UNCHANGED <<now, pc, storeVars, quota_used_this_run, localVars, test_mode, loop, request,
                   db_available, community, sourceVars, cycles, faults, failure,
                   api_calls, reported, stage, waited, quota_probe, dedup_probe>>

NextUpcoming == UpcomingCall \/ Tick

SpecUpcoming == InitAdmit /\ [][NextUpcoming]_vars

----------------------------------------------------------------------------
(* Database.generate_title_hash on its own: pairs of titles over a few      *)
(* words, in either case, with punctuation and with common words            *)

HashWords == {"Finland", "finland,", "GP", "Highlights:"}

HashTitles ==
    UNION {[1..n -> HashWords] : n \in 0..MaxTitleLen}
        \cup {<<"WRC", "Rally", "Finland", "Highlights">>,
              <<"Highlights:", "Rally", "Finland", "WRC">>,
              <<"GP", "-", "Finland">>}

\* two calls of generate_title_hash, noting the titles and the hashes
HashCall ==
    /\ call_probe = NoProbe
    /\ \E a \in HashTitles, b \in HashTitles :
           call_probe' = [op |-> "hash", a |-> a, b |-> b,
                          hash_a |-> generate_title_hash(a),
                          hash_b |-> generate_title_hash(b)]
    /\ UNCHANGED <<now, pc, storeVars, quota_used_this_run, localVars, test_mode, loop, request,
                   db_available, community, sourceVars, cycles, faults, failure,
                   api_calls, reported, stage, waited, quota_probe, dedup_probe>>

NextHash == HashCall

SpecHash == InitAdmit /\ [][NextHash]_vars

----------------------------------------------------------------------------
(* The Dedup Engine on its own: calls of check_for_duplicates over a span   *)
(* longer than the tracking window                                          *)

\* one call of check_for_duplicates for video v, as bot.py:241-246 makes it
DedupCheck(v) ==
    LET c == check_for_duplicates(posted_videos, lemmy_posts, duplicate_tracking, v,
                                  VideoInfo(v).title, VideoInfo(v).channel_id,
                                  duplicate_check_hours, now)
    IN  /\ duplicate_tracking' = c.duplicate_tracking
        /\ dedup_probe' =
               [dedup_probe EXCEPT ![v] =
                    [result |-> IF c.dup THEN "duplicate" ELSE "new",
                     prev_false |-> @.last_false,
                     last_false |-> IF c.dup THEN @.last_false ELSE now]]
        /\ UNCHANGED <<now, pc, posted_videos, lemmy_posts, old_video_cache, bot_stats,
                       error_log, quota_used_this_run, localVars, test_mode, loop, request, db_available, community,
                       sourceVars, cycles, faults, failure, api_calls, reported, stage, waited,
                       quota_probe, call_probe>>

\* the video is posted and recorded (Database.record_posted_video)
DedupRecord(v) ==
    LET r == record_posted_video(posted_videos,
                                 [video_id |-> v, series_tag |-> "F1", quality_score |-> 70],
                                 FakePostId(v), now)
    IN  /\ posted_videos = {}
        /\ posted_videos' = r.posted_videos
        /\ UNCHANGED <<now, pc, lemmy_posts, duplicate_tracking, old_video_cache,
                       bot_stats, error_log, quota_used_this_run, localVars, test_mode, loop, request, db_available,
                       community, sourceVars, cycles, faults, failure, api_calls, reported, stage, waited,
                       probeVars>>

\* time passes
DedupTick ==
    /\ now < MaxDedupTime
    /\ now' = now + 1
    /\ UNCHANGED <<pc, storeVars, quota_used_this_run, localVars, test_mode, loop, request, db_available, community,
                   sourceVars, cycles, faults, failure, api_calls, reported, stage, waited, probeVars>>

\* two videos of one channel
DedupIds == {"va", "vc"}

InitDedup == Init /\ ~test_mode /\ bot_stats[0] = NoRow /\ live["vb"].scheduled = NoTime

NextDedup ==
    \/ \E v \in DedupIds : DedupCheck(v)
    \/ \E v \in DedupIds : DedupRecord(v)
    \/ DedupTick

SpecDedup == InitDedup /\ [][NextDedup]_vars

----------------------------------------------------------------------------
(* The title tier of check_for_duplicates on a host in any of UtcOffsets:   *)
(* detected_at is SQLite's CURRENT_TIMESTAMP (UTC), the cutoff is           *)
(* datetime.now() - timedelta(hours), the host's local time                 *)

\* Database.check_for_duplicates at the instant `utc` on a host whose clock
\* shows utc + utc_offset: the cutoff comes from the host's clock, the
\* detected_at of the row it inserts from CURRENT_TIMESTAMP
check_for_duplicates_on_host(pv, lp, dt, video_id, title, channel_id, hours, utc, utc_offset) ==
    LET c == check_for_duplicates(pv, lp, dt, video_id, title, channel_id, hours,
                                  utc + utc_offset)
    IN  [dup |-> c.dup,
         duplicate_tracking |->
             IF c.dup THEN dt
             ELSE insert_duplicate_tracking(dt, video_id, generate_title_hash(title),
                                            channel_id, utc)]

\* the videos checked: two of one channel whose titles have the same words,
\* one of another channel with the same title, one of the first channel
\* with another title
TitleCalls ==
    {[video_id |-> "va", channel_id |-> "ch1", title |-> <<"Finland", "GP", "Highlights">>],
     [video_id |-> "vc", channel_id |-> "ch1", title |-> <<"Highlights:", "GP", "Finland">>],
     [video_id |-> "vb", channel_id |-> "ch2", title |-> <<"Finland", "GP", "Highlights">>],
     [video_id |-> "vd", channel_id |-> "ch1", title |-> <<"GP", "Highlights">>]}

\* one call of check_for_duplicates, noting whether an entry of the same title
\* hash and channel had been detected within the last `hours`
TitleCheck ==
    \E call \in TitleCalls, utc_offset \in UtcOffsets :
        LET c == check_for_duplicates_on_host(posted_videos, lemmy_posts,
                                              duplicate_tracking, call.video_id, call.title,
                                              call.channel_id, duplicate_check_hours, now,
                                              utc_offset)
            title_hash == generate_title_hash(call.title)
        IN  /\ duplicate_tracking' = c.duplicate_tracking
            /\ call_probe' =
                   [op |-> "title_tier", video_id |-> call.video_id,
                    utc_offset |-> utc_offset,
                    in_window |-> \E e \in duplicate_tracking :
                                     /\ e.title_hash = title_hash
                                     /\ e.channel_id = call.channel_id
                                     /\ e.detected_at > now - duplicate_check_hours,
                    result |-> c.dup]
            /\ UNCHANGED <<now, pc, posted_videos, lemmy_posts, old_video_cache, bot_stats,
                           error_log, quota_used_this_run, localVars, test_mode, loop, request,
                           db_available, community, sourceVars, cycles, faults, failure,
                           api_calls, reported, stage, waited, quota_probe, dedup_probe>>

NextTitle == TitleCheck \/ DedupTick

SpecTitle == InitDedup /\ [][NextTitle]_vars

----------------------------------------------------------------------------
(* Properties                                                               *)

\* youtube.py:374-377: started and not ended
IsLive(v) == live[v].started /\ ~live[v].ended

\* the day's youtube_quota_used, 0 when the day has no row
QuotaOfDay(d) == get_youtube_quota_usage(bot_stats, 2 * d)

\* C1: across any sequence of cycles no video is published to the community
\* more than once, and posted_videos never holds two records of one video.
C1_PublishedOnce ==
    /\ \A p1, p2 \in community :
           p1.by_bot /\ p2.by_bot /\ p1.url = p2.url => p1 = p2
    /\ \A r1, r2 \in posted_videos : r1.video_id = r2.video_id => r1 = r2

\* a later cycle meets a video the bot has published and drops it as a duplicate
C1_Witness ==
    \E p \in community :
        p.by_bot /\ cycles >= 2 /\ pc = "finally" /\ stage[p.url.id] = "duplicate"

\* C2: a call of check_for_duplicates made inside the tracking window of an
\* earlier call that returned false (same id, title, channel) returns true.
C2_RepeatInsideWindowIsDuplicate ==
    \A v \in VideoIds :
        dedup_probe[v].result = "new" /\ dedup_probe[v].prev_false # NoTime
            => dedup_probe[v].last_false - dedup_probe[v].prev_false
                   >= duplicate_check_hours

\* C3: an upcoming stream that an earlier cycle left waiting and that has not
\* gone live is not stopped by the dedup check in the cycle in which its
\* scheduled start is no later than the next scan: it reaches the
\* upcoming-stream rules and the scorer.
C3_WaitingStreamReevaluated ==
    \A v \in waited :
        /\ ~live[v].started
        /\ live[v].scheduled >= now
        /\ live[v].scheduled <= now + scan_interval
        => stage[v] # "duplicate"

\* C4: a LIVE item is never discarded for its age or for a start time in the past.
C4_LiveNeverDiscardedForAge ==
    \A v \in VideoIds :
        IsLive(v) => stage[v] \notin {"stale", "past_start", "prefilter_old",
                                      "upcoming_past"}

C6_SentinelNeverShort ==
    \A v \in VideoIds :
        VideoInfo(v).duration = P0D => stage[v] \notin {"short_api", "short_scorer"}

\* C7: check_quota_limit(cost) answers false exactly when the per-run counter
\* plus cost exceeds the per-run limit or the daily counter plus cost exceeds
\* the daily limit, and leaves both counters as they were.
C7_CheckIsExactAndPure ==
    quota_probe.op = "check" =>
        /\ quota_probe.ok <=>
               ~(\/ quota_probe.run + quota_probe.cost > run_quota_limit
                 \/ quota_probe.daily + quota_probe.cost > daily_quota_limit)
        /\ quota_used_this_run = quota_probe.run
        /\ QuotaOfDay(quota_probe.day) = quota_probe.daily

\* a cost that brings the per-run counter exactly to its limit is admitted
C7_Witness ==
    /\ quota_probe.op = "check"
    /\ quota_probe.ok
    /\ quota_probe.run > 0
    /\ quota_probe.run + quota_probe.cost = run_quota_limit

\* C8: between cycles the daily counter of every day equals the sum of the
\* costs reported through track_quota_usage on that day.
C8_DailyCounterIsSumReported ==
    pc = "idle" => \A d \in Days : QuotaOfDay(d) = reported[d]

\* C9: the daily counter never exceeds the daily limit.
C9_DailyCounterWithinLimit ==
    \A d \in Days : QuotaOfDay(d) <= daily_quota_limit

\* C10: when the batch estimate is denied at the start of fetching, the cycle
\* issues no API call, consumes no quota, counts no error and ends normally.
C10_DeniedEstimateEndsQuietly ==
    quota_probe.op = "denied" =>
        /\ pc \in {"finally", "idle"}
        /\ api_calls = 0
        /\ errors = 0
        /\ posts_made = 0
        /\ quota_used_this_run = quota_probe.run
        /\ QuotaOfDay(quota_probe.day) = quota_probe.daily
        /\ reported[quota_probe.day] = quota_probe.reported

\* a cycle whose estimate was denied has ended
C10_Witness ==
    quota_probe.op = "denied" /\ pc = "idle" /\ QuotaOfDay(quota_probe.day) > 0

\* C11: when a request of a fetch operation fails, the units of the requests
\* of that operation that completed before it are in the per-cycle counter and
\* in the daily counter, and the failed request adds nothing.
C11_CompletedCallsCounted ==
    quota_probe.op = "listing" /\ quota_probe.failed =>
        /\ quota_used_this_run = quota_probe.run + quota_probe.completed
        /\ QuotaOfDay(quota_probe.day) = quota_probe.daily + quota_probe.completed

\* C12: whenever max_posts_per_day or more published records fall within the
\* last 24 hours, should_post_video answers false, whatever the candidate's
\* score and live state.
C12_DailyCapDenies ==
    call_probe.op = "admit" /\ call_probe.last_day >= max_posts_per_day
        => ~call_probe.result

\* C13: within one cycle the number of successful publishes never exceeds
\* max_posts_per_run, whatever candidates remain.
C13_PostsPerRunCapped ==
    /\ posts_made <= max_posts_per_run
    /\ Len(slept_after) <= max_posts_per_run

\* the loop stopped at the maximum with a candidate left that would be admitted
C13_Witness ==
    /\ pc = "finally"
    /\ posts_made = max_posts_per_run
    /\ Len(candidate_videos) > max_posts_per_run
    /\ idx = max_posts_per_run + 1
    /\ should_post_video(candidate_videos[idx], posted_videos, now)

\* C14: between two consecutive successful publishes of one cycle at least
\* time_between_posts seconds pass.
C14_SpacingBetweenPosts ==
    \A k \in 1..Len(slept_after) - 1 : slept_after[k] >= time_between_posts

\* a cycle has published twice
C14_Witness ==
    /\ Len(slept_after) >= 2
    /\ posts_made >= 2
    /\ time_between_posts > 0

\* the failures of a publish attempt
PublishFailures == PublishOutcomes \ {"ok"}

\* C15: a publish attempt that fails records nothing as published, leaves the
\* rolling 24 h and 1 h counts and the cycle's publish count as they were, adds
\* exactly one to the cycle's error count, and the loop goes on to the next
\* candidate.
C15_FailedPublishCostsNothing ==
    [][pc = "posting" /\ faults' # faults =>
           /\ posted_videos' = posted_videos
           /\ get_recent_posts_count(posted_videos', 2, now')
                  = get_recent_posts_count(posted_videos, 2, now)
           /\ get_recent_posts_count(posted_videos', 1, now')
                  = get_recent_posts_count(posted_videos, 1, now)
           /\ posts_made' = posts_made
           /\ slept_after' = slept_after
           /\ errors' = errors + 1
           /\ IF idx < Len(candidate_videos)
              THEN pc' = "posting" /\ idx' = idx + 1
              ELSE pc' = "finally"]_vars

\* the publish of the first candidate failed and the second was published
C15_Witness ==
    /\ failure \in PublishFailures
    /\ errors = 1
    /\ posts_made = 1
    /\ Len(candidate_videos) >= 2
    /\ ~\E r \in posted_videos : r.video_id = candidate_videos[1].video_id
    /\ \E r \in posted_videos : r.video_id = candidate_videos[2].video_id

\* the failures of a component inside a cycle
ComponentFailures ==
    {"youtube_failed", "lemmy_failed", "sync_failed", "http_channel", "http_playlist",
     "http_videos", "malformed_item"} \cup PublishFailures

\* C16: a failure of any component inside a cycle is counted as an error in
\* that cycle's counters by the time the cycle ends.
C16_FailureCountedAsError ==
    pc = "finally" /\ failure \in ComponentFailures => errors >= 1

\* C17: a state store that is unavailable never ends the continuous loop.
C17_LoopSurvivesOutage ==
    pc # "terminated"

\* C18: a malformed item is dropped and counted as one error, and the items
\* that came with it in the same response are still classified.
C18_MalformedDroppedOnly ==
    \A v \in VideoIds :
        stage[v] = "malformed" =>
            /\ errors = 1
            /\ \A w \in listed \ {v} :
                   VideoInfo(w).channel_id = VideoInfo(v).channel_id
                       => stage[w] # "unseen"

\* the errors that do not end the cycle's process: failed fetch, validation
\* failure, failed publish
NonFatalErrors ==
    {"http_channel", "http_playlist", "http_videos", "malformed_item"}
        \cup PublishFailures

\* C19: every non-fatal error of a cycle has a row in the durable error log
\* by the time the cycle ends.
C19_ErrorsReachTheLog ==
    pc = "finally" /\ failure \in NonFatalErrors => error_log # {}

\* C20: calculate_content_quality_score returns an integer from 0 to 100, and
\* 0 for every title that holds a configured auto-reject keyword in whatever
\* case, whatever the description, the view count, the age and the live state.
C20_ScoreInRangeAndAutoReject ==
    call_probe.op = "score" =>
        /\ call_probe.result \in 0..100
        /\ (\E i \in 1..Len(call_probe.title), j \in 1..Len(auto_reject) :
                LowerWord(call_probe.title[i]) = LowerWord(auto_reject[j]))
               => call_probe.result = 0

\* a live, much viewed candidate whose title holds boosters and, in capitals,
\* an auto-reject keyword
C20_Witness ==
    /\ call_probe.op = "score"
    /\ Contains(call_probe.title, "Podcast")
    /\ Contains(call_probe.title, "official")
    /\ call_probe.is_livestream
    /\ call_probe.view_count > 5000
    /\ call_probe.result = 0


\* C21: the candidate "F2 Sprint Race Highlights - Round 3" of the channel with
\* primary tag F1 and secondary tag F2 is tagged F2, and the record its
\* publish creates carries the tag F2.
C21_SecondaryTagPublished ==
    /\ \A i \in 1..Len(candidate_videos) :
           candidate_videos[i].video_id = "va" => candidate_videos[i].series_tag = "F2"
    /\ \A r \in posted_videos :
           r.video_id = "va" /\ r.series_tag # "SYNCED" => r.series_tag = "F2"


\* C22: an upcoming stream passes the upcoming-stream filter exactly when its
\* scheduled start is not before the scan and no later than the earlier of the
\* next scan and the maximum age: 10 minutes ahead passes, 2 hours ahead does
\* not (scan interval 30 minutes).
C22_UpcomingWindow ==
    call_probe.op = "upcoming" =>
        (call_probe.result = "included"
            <=> /\ 0 <= call_probe.delay
                /\ call_probe.delay <= Min(max_age_minutes, interval_minutes))


\* the words of a title that are not common words, lower-cased and without
\* punctuation: as a set, and each with the number of times it occurs
TokenSet(title) ==
    {StripPunctuation(LowerWord(title[i])) : i \in 1..Len(title)}
        \ (common_words \cup {""})

TokenCount(title, w) ==
    Cardinality({i \in 1..Len(title) : StripPunctuation(LowerWord(title[i])) = w})

\* C23 as stated: two titles with the same set of non-stopword tokens have
\* the same title hash, whatever the order of the tokens and the stopwords.
C23_SameTokenSetSameHash ==
    call_probe.op = "hash" /\ TokenSet(call_probe.a) = TokenSet(call_probe.b)
        => call_probe.hash_a = call_probe.hash_b

\* C23, amended: two titles in which every non-stopword token occurs the
\* same number of times have the same title hash, whatever the order of the
\* tokens and the stopwords.
C23_SameTokensSameHash ==
    call_probe.op = "hash"
        /\ TokenSet(call_probe.a) = TokenSet(call_probe.b)
        /\ (\A w \in TokenSet(call_probe.a) :
                TokenCount(call_probe.a, w) = TokenCount(call_probe.b, w))
        => call_probe.hash_a = call_probe.hash_b

\* two titles with the same two tokens in opposite order, one of them with
\* punctuation and a common word, hash alike
C23_Witness ==
    /\ call_probe.op = "hash"
    /\ call_probe.a = <<"GP", "Finland">>
    /\ call_probe.b = <<"finland,", "Highlights:", "GP">>
    /\ call_probe.hash_a = call_probe.hash_b


\* C24: at most one run_once is executing at any time, also after a cycle
\* that overran the scan interval or ended with an exception.
C24_OneCycleInFlight ==
    loop.in_flight <= 1

\* a second cycle is in flight after one that raised and overran the interval
C24_Witness ==
    /\ pc = "run_once"
    /\ cycles = 2
    /\ loop.in_flight = 1
    /\ loop.last = "raised"
    /\ loop.sleep_time = 0

\* C25: after stop() the loop starts no new cycle, and a stop that arrives
\* during the inter-cycle sleep is followed by at most sleep_increment
\* seconds of sleep.
C25_StopEndsLoopSoon ==
    /\ loop.started_after_stop = 0
    /\ loop.stop_in_sleep => loop.slept_after_stop <= sleep_increment

\* stop() arrived in the middle of a sleep increment with more of them to
\* come, and run_continuous has returned
C25_Witness ==
    /\ pc = "returned"
    /\ loop.stop_in_sleep
    /\ loop.left > 0
    /\ loop.slept_after_stop = sleep_increment
    /\ cycles = 1


\* C26: every post the bot created in the community has a published record,
\* or an error was counted or logged for its publish, wherever a shutdown
\* signal or a failure met the publish.
C26_NoPartialPublish ==
    \A p \in community :
        p.by_bot => \/ \E r \in posted_videos : r.video_id = p.url.id
                    \/ errors >= 1
                    \/ error_log # {}


\* C27: a record enters posted_videos only in the step in which the pipeline
\* publishes that video (in production or as a dry run), and no step changes
\* or removes a record.
C27_RecordsOnlyByPublish ==
    [][/\ posted_videos \subseteq posted_videos'
       /\ \A r \in posted_videos' \ posted_videos :
              /\ pc = "posting"
              /\ posts_made' = posts_made + 1
              /\ r.video_id = candidate_videos[idx].video_id]_vars

----------------------------------------------------------------------------
PassedDedup == {"upcoming_past", "upcoming_far", "upcoming_wait", "low_quality",
                "short_scorer", "candidate"}

\* C28: a video whose id is held by the url of a stored community post is
\* answered "duplicate" by every fetch, so no fetch leaves it at a stage
\* behind the duplicate check.
C28_StoredPostIsDuplicate ==
    [][pc = "channels" =>
          \A v \in VideoIds :
              (\E r \in lemmy_posts : r.url.id = v) => stage'[v] \notin PassedDedup]_vars

\* a video is answered "duplicate" while only the stored community post
\* speaks of it: no row of posted_videos, no tracking entry
C28_Witness ==
    \E v \in VideoIds :
        /\ stage[v] = "duplicate"
        /\ \E r \in lemmy_posts : r.url.id = v
        /\ ~\E r \in posted_videos : r.video_id = v
        /\ ~\E e \in duplicate_tracking : e.video_id = v

\* C29: with nothing published and no stored community post, a check
\* answers "duplicate" exactly when a tracking entry of the same title hash
\* and the same channel was detected within the last duplicate_check_hours.
C29_TitleTierExactly ==
    call_probe.op = "title_tier" => (call_probe.result <=> call_probe.in_window)

\* C30: should_post_video answers true exactly when fewer than
\* max_posts_per_day records were published within the last 24 hours, fewer
\* than max_posts_per_hour within the last hour, and the score reaches the
\* threshold: the livestream threshold for a live candidate, the ordinary
\* one for any other.
C30_AdmitExactly ==
    call_probe.op = "admit" =>
        (call_probe.result <=>
            /\ call_probe.last_day < max_posts_per_day
            /\ call_probe.last_hour < max_posts_per_hour
            /\ call_probe.quality_score >=
                   IF call_probe.is_livestream THEN livestream_quality_threshold
                   ELSE min_quality_threshold)

----------------------------------------------------------------------------
\* the secondary tag appears in the title or the description and its
\* specificity rule passes
TagPasses(tag, primary_tag, title, description) ==
    /\ Contains(lower(title), Lower(tag)) \/ Contains(lower(description), Lower(tag))
    /\ is_more_specific_tag(tag, primary_tag, lower(title), lower(description))

\* C31: for a configured channel the answer is the first secondary tag, in
\* the configured order, that appears in the title or description and whose
\* specificity rule passes, and the primary tag when none does; for any
\* other channel it is OTHER with priority 1.
C31_FirstPassingTag ==
    call_probe.op = "tag" =>
        LET p == call_probe
            configured == {i \in 1..Len(channels) : channels[i].channelID = p.channel_id}
        IN  IF configured = {}
            THEN p.result = [tag |-> "OTHER", priority |-> 1]
            ELSE \A i \in configured :
                     LET tags == channels[i].secondary_tags
                         passing == {k \in 1..Len(tags) :
                                         TagPasses(tags[k], channels[i].primary_tag,
                                                   p.title, p.description)}
                     IN  /\ p.result.priority > 1
                         /\ passing = {} => p.result.tag = channels[i].primary_tag
                         /\ \A k \in passing :
                                (\A j \in passing : k <= j) => p.result.tag = tags[k]

\* two secondary tags pass and the answer is the first of them
C31_Witness ==
    /\ call_probe.op = "tag"
    /\ call_probe.channel_id = "ch2"
    /\ TagPasses("LMP2", "WEC", call_probe.title, call_probe.description)
    /\ TagPasses("SPA24H", "WEC", call_probe.title, call_probe.description)
    /\ call_probe.result.tag = "LMP2"

\* C32: an ordinary item that the classifier finds older than
\* video_max_age_hours is written to the negative cache: while the cycle
\* that discarded it goes on, old_video_cache holds a row for it.
C32_StaleItemCached ==
    \A v \in VideoIds :
        stage[v] = "stale" => \E r \in old_video_cache : r.video_id = v

\* the stages at which an upcoming stream is discarded: by the classifier
\* (scheduled start in the past) and by the three upcoming-stream rules
UpcomingDiscards == {"past_start", "upcoming_past", "upcoming_far", "upcoming_wait"}

TransientFailures == {i \in 1..Len(request.outcomes) : request.outcomes[i] = "transient"}

\* what holds of a call of _make_request at every moment
C34_Attempts ==
    /\ Len(request.outcomes) <= max_retries
    /\ \A i \in 1..Len(request.delays) :
           /\ request.delays[i].seconds = retry_delay * backoff_factor ^ request.delays[i].after
           /\ request.outcomes[request.delays[i].after + 1] = "transient"
    /\ \A i \in TransientFailures :
           i < max_retries => \E k \in 1..Len(request.delays) : request.delays[k].after = i - 1
    /\ \A i \in 1..Len(request.outcomes) :
           request.outcomes[i] = "ok" =>
               /\ i = Len(request.outcomes)
               /\ request.result = "response"
    /\ request.result = "response" => request.outcomes[Len(request.outcomes)] = "ok"
    /\ request.result = "None" /\ ~request.login_failed
           => Len(request.outcomes) = max_retries

----------------------------------------------------------------------------
\* the video data the classifier returned and the pipeline kept, in this
\* cycle's list or in the sorted candidates
Produced ==
    {all_videos[i] : i \in 1..Len(all_videos)}
        \cup {candidate_videos[i] : i \in 1..Len(candidate_videos)}

\* C38: no video data the classifier produced has is_livestream and
\* is_upcoming both true, and one with is_upcoming has a scheduled start
\* time.
C38_OneLiveState ==
    \A d \in Produced :
        /\ ~(d.is_livestream /\ d.is_upcoming)
        /\ d.is_upcoming => VideoData(d.video_id, live).scheduled_start_time # NoTime

----------------------------------------------------------------------------
\* the step of run_once in which sync_community_posts has run
Imports == pc = "idle" /\ pc' = "fetch"

\* C39: the import of the community's posts leaves the numbers of records of
\* the last 24 hours and of the last hour as they were, so a candidate that
\* should_post_video admitted before the import is admitted after it.
C39_ImportKeepsBudget ==
    [][Imports =>
          /\ get_recent_posts_count(posted_videos', 2, now)
                 = get_recent_posts_count(posted_videos, 2, now)
          /\ get_recent_posts_count(posted_videos', 1, now)
                 = get_recent_posts_count(posted_videos, 1, now)
          /\ \A is_livestream \in BOOLEAN :
                 LET d == [is_livestream |-> is_livestream, quality_score |-> 100]
                 IN  should_post_video(d, posted_videos, now)
                         => should_post_video(d, posted_videos', now)]_vars

----------------------------------------------------------------------------
\* the step in which run_once returns
CycleEnds == pc = "finally" /\ pc' = "idle"

\* the candidates of the cycle that ends which the store has no record and
\* no post of, still listed and no older than video_max_age_hours when the
\* next scan is due
LeftUnpublished ==
    {v \in listed :
         /\ \E i \in 1..Len(candidate_videos) : candidate_videos[i].video_id = v
         /\ ~\E r \in posted_videos' : r.video_id = v
         /\ ~\E r \in lemmy_posts' : r.url.id = v
         /\ ~(VideoInfo(v).published_at < now + scan_interval - video_max_age_hours)}

\* C40: a cycle leaves the store such that the dedup check of the next scan
\* does not answer "duplicate" for a candidate the cycle did not publish,
\* still listed and still fresh.
C40_UnpublishedNotSuppressed ==
    [][CycleEnds =>
          \A v \in LeftUnpublished :
              ~check_for_duplicates(posted_videos', lemmy_posts', duplicate_tracking', v,
                                    VideoInfo(v).title, VideoInfo(v).channel_id,
                                    duplicate_check_hours, now + scan_interval).dup]_vars

----------------------------------------------------------------------------
\* the i-th candidate of the cycle has been published
Published(i) == \E r \in posted_videos : r.video_id = candidate_videos[i].video_id

\* the candidates are in descending order of their scores
CandidatesDescending ==
    \A i, j \in 1..Len(candidate_videos) :
        i < j => candidate_videos[i].quality_score >= candidate_videos[j].quality_score

\* the candidates that score higher than the one at idx, would be admitted
\* and are not published
HigherLeft ==
    {i \in 1..Len(candidate_videos) :
         /\ candidate_videos[i].quality_score > candidate_videos[idx].quality_score
         /\ should_post_video(candidate_videos[i], posted_videos, now)
         /\ ~Published(i)}

\* a step of the cycle that publishes the candidate at idx
Publishes == pc = "posting" /\ posts_made' = posts_made + 1

\* C36 as stated: the candidates are offered in descending order of score,
\* and no candidate is published while a higher-scoring candidate of the
\* cycle that would be admitted is left unpublished.
C36_NoHigherLeftUnpublished ==
    /\ []CandidatesDescending
    /\ [][Publishes => HigherLeft = {}]_vars

\* C36: the candidates are offered in descending order of score, so the
\* published scores do not increase, and when a candidate is published every
\* higher-scoring candidate that would be admitted and is unpublished has
\* been offered before and its publish attempt has failed.
C36_HigherLeftOnlyByFailure ==
    /\ []CandidatesDescending
    /\ [][Publishes =>
              /\ \A i \in 1..(idx - 1) :
                     Published(i) => candidate_videos[i].quality_score
                                         >= candidate_videos[idx].quality_score
              /\ \A i \in HigherLeft : i < idx
              /\ Cardinality(HigherLeft) <= errors]_vars

\* a cycle has published a candidate after the publish attempt for a
\* higher-scoring one had failed
C36_Witness ==
    /\ pc \in {"posting", "finally"}
    /\ errors = 1
    /\ \E i, j \in 1..Len(candidate_videos) :
           /\ i < j
           /\ candidate_videos[i].quality_score > candidate_videos[j].quality_score
           /\ ~Published(i)
           /\ Published(j)

----------------------------------------------------------------------------
\* the keywords of a list that a text holds, in whatever case
KeywordsIn(kws, text) ==
    {i \in 1..Len(kws) : \E k \in 1..Len(text) : LowerWord(text[k]) = LowerWord(kws[i])}

\* the title weight for every keyword of the list the title holds, the
\* description weight for every other one the description holds
PerKeyword(kws, p, in_title, in_desc) ==
    in_title * Cardinality(KeywordsIn(kws, p.title))
    + in_desc * Cardinality(KeywordsIn(kws, p.description) \ KeywordsIn(kws, p.title))

\* the title weight if the title holds a keyword of the list, otherwise the
\* description weight if the description holds one
PerCategory(kws, p, in_title, in_desc) ==
    IF KeywordsIn(kws, p.title) # {} THEN in_title
    ELSE IF KeywordsIn(kws, p.description) # {} THEN in_desc
    ELSE 0

\* what the view count, the age, the live state and a rally stage title add
OtherPoints(p) ==
    (IF p.view_count > 5000 THEN 5 ELSE IF p.view_count > 2500 THEN 3
     ELSE IF p.view_count > 1000 THEN 1 ELSE 0)
    - (IF p.age > 2 /\ p.view_count < 500 THEN 10 ELSE 0)
    + (IF p.is_livestream THEN live_content_bonus ELSE 0)
    + (IF /\ \E k \in 1..Len(p.title) : LowerWord(p.title[k]) = "stage"
          /\ \E k \in 1..Len(p.title) : LowerWord(p.title[k]) \in {"rally", "wrc", "special"}
       THEN 10 ELSE 0)

Clamp(n) == IF n < 0 THEN 0 ELSE IF n > 100 THEN 100 ELSE n

\* a call for a title without an auto-reject keyword
ScoredCall ==
    /\ call_probe.op = "score"
    /\ KeywordsIn(auto_reject, call_probe.title) = {}

\* the call's score comes from the title's keywords alone
TitleAlone ==
    /\ call_probe.description = <<>>
    /\ OtherPoints(call_probe) = 0

\* C37 as stated: the keyword points are given once for each of the four
\* categories.
C37_ScorePerCategory ==
    ScoredCall =>
        call_probe.result =
            Clamp(50 + PerCategory(quality_boosters, call_probe, 10, 5)
                     + PerCategory(race_content, call_probe, 15, 8)
                     + PerCategory(analysis_content, call_probe, 8, 4)
                     - PerCategory(warning_signs, call_probe, 15, 8)
                     + OtherPoints(call_probe))

\* C37: the score is 50 plus, for every keyword of the four categories, its
\* title weight if the title holds it and else its description weight if the
\* description does, plus the view bonus, minus the age penalty, plus the
\* live bonus and the rally stage bonus, kept within 0..100; from the title
\* alone a booster and a race keyword score above min_quality_threshold, a
\* warning sign and one race keyword below it.
C37_ScorePerKeyword ==
    ScoredCall =>
        /\ call_probe.result =
               Clamp(50 + PerKeyword(quality_boosters, call_probe, 10, 5)
                        + PerKeyword(race_content, call_probe, 15, 8)
                        + PerKeyword(analysis_content, call_probe, 8, 4)
                        - PerKeyword(warning_signs, call_probe, 15, 8)
                        + OtherPoints(call_probe))
        /\ TitleAlone /\ KeywordsIn(quality_boosters, call_probe.title) # {}
              /\ KeywordsIn(race_content, call_probe.title) # {}
              /\ KeywordsIn(warning_signs, call_probe.title) = {}
              => call_probe.result > min_quality_threshold
        /\ TitleAlone /\ KeywordsIn(warning_signs, call_probe.title) # {}
              /\ Cardinality(KeywordsIn(race_content, call_probe.title)) = 1
              /\ KeywordsIn(quality_boosters, call_probe.title) = {}
              /\ KeywordsIn(analysis_content, call_probe.title) = {}
              => call_probe.result < min_quality_threshold

\* a title that holds two boosters and two race keywords, in capitals too,
\* with keywords in the description as well
C37_Witness ==
    /\ ScoredCall
    /\ Cardinality(KeywordsIn(quality_boosters, call_probe.title)) = 2
    /\ Cardinality(KeywordsIn(race_content, call_probe.title)) = 2
    /\ Contains(call_probe.title, "LIVE")
    /\ call_probe.description # <<>>
    /\ ~call_probe.is_livestream
    /\ call_probe.result = 100

============================================================================
